---- MODULE Spec2Model ----
(***************************************************************************)
(* Model of the monji trivia bot: the session registry (GAMES), the        *)
(* GameState objects, the slash-command handlers (/trivia, /trivia_stop),  *)
(* the message listener, the winner resolver, the hint/timeout scheduler   *)
(* and the question selector with its session-level "used" set.            *)
(*                                                                         *)
(* The bot runs on one asyncio event loop: a coroutine runs without        *)
(* interruption from one await to the next, so every action below is the   *)
(* code between two suspension points of one coroutine.                    *)
(***************************************************************************)
EXTENDS Integers, Sequences, FiniteSets, TLC

\* ------------------------------------------------------------------ bounds
NChannels == 2      \* channel ids 1..NChannels
NUsers == 2         \* participant ids 1..NUsers
NItems == 3         \* rows of the questions table, ids 1..NItems
MaxTs == 2          \* message.created_at values 1..MaxTs
MaxSubs == 2        \* correct submissions processed per round of a session
MaxSessions == 2    \* GameState objects created in one behaviour
SoloSessions == 1   \* the same, where one session is followed in full detail
MaxAnswerLen == 3   \* characters of an expected answer
MaxReplyLen == 3    \* characters of a short commentary text
MaxSubLen == 3      \* characters of a submitted message
MaxDigits == 2      \* characters of an expected answer of a classified question
MaxWordLen == 5     \* characters of a text that normalize() leaves unchanged
MaxHintLen == 8     \* characters of a one-word answer a hint is built for

\* ------------------------------------------------------- program constants
MinRounds == 5          \* bot.py:135
MaxRoundsLimit == 100   \* bot.py:135
NoWinner == -1          \* hints.py:156, the "no winner" sentinel
QuipMinRounds == 15     \* resolution.py:82
CommentaryCap == 200    \* hints.py:128
DefaultThreshold == 8   \* fuzzy.py:40, the threshold 0.8 in tenths
ShortThreshold == 9     \* fuzzy.py:75, the threshold 0.9 in tenths
ShortAnswerLen == 4     \* fuzzy.py:70
MaxLenDiff == 2         \* fuzzy.py:80
ShuffleAttempts == 10   \* state.py:67

\* Encoding of Python's None for ids (user ids and row ids are positive).
None == 0

Channels == 1..NChannels
Users == 1..NUsers
ScoreIds == Users \cup {NoWinner}
Items == 1..NItems
ObjIds == 1..MaxSessions

VARIABLES
    GAMES,          \* channel.id -> id of its GameState object (None: no entry)
    games,          \* the GameState objects, by object id
    created,        \* how many GameState objects were created so far
    tasks,          \* suspended coroutines / asyncio tasks (records)
    usedInSession,  \* manager._used_in_session
    timesAsked,     \* questions.times_asked per row
    approved,       \* rows with approved = TRUE
    qlock,          \* manager._question_lock is held
    reply,          \* the interaction response sent by the step just taken,
                    \* "none" if it sent none ("untracked": not recorded)
    hist,           \* per GameState: observations of the current round
    handed,         \* observation: how often get_random_question has
                    \* returned each row since the process started
    io              \* the call of a text function under examination: its
                    \* arguments and, once made, its result

vars == <<GAMES, games, created, tasks, usedInSession, timesAsked, approved, qlock,
          reply, hist, handed, io>>

\* ------------------------------------------------------------ GameState
\* GameState.new (common/state.py) / the dict built by /trivia (bot.py:152-161).
\* scores is a dict user_id -> int whose values are all >= 1: it is kept as
\* a total function in which 0 stands for "no such key". Its possible keys
\* are the ids the code uses as winner_id: the participants and -1.
NewGameState(c, rounds) ==
    [ chan               |-> c,
      round              |-> 0,
      max_rounds         |-> rounds,
      current_question   |-> None,
      winner_id          |-> None,
      scores             |-> [u \in ScoreIds |-> 0],
      in_progress        |-> TRUE,
      resolving          |-> FALSE,
      midgame_quip_done  |-> FALSE,
      correct_candidates |-> << >> ]

\* Observations of one GameState (not program state); got, wins and quips
\* are kept for the whole session, the others are of the current round:
\*   got      - rows this session has asked so far
\*   wins     - per participant, the rounds a resolver commit closed for them
\*   quips    - calls of handle_midgame_quip that request the commentary
\*   subs     - submissions classified correct in this round
\*   armed    - resolver tasks created in this round
\*   commits  - resolver commits (score increments) in this round
\*   awards   - award_points calls made for this round
\*   locks    - times winner_id went from unset to set in this round
\*   advances - times the advance-or-end step ran for this round
\*   winTs    - created_at of the winner's message, from the commit until
\*              the resolver clears the round (None otherwise)
NewHist ==
    [ got |-> {}, wins |-> [u \in Users |-> 0], quips |-> 0,
      subs |-> 0, armed |-> 0, commits |-> 0, awards |-> 0,
      locks |-> 0, advances |-> 0, winTs |-> None ]

\* the keys of the scores dict
ScoreKeys(scores) == {u \in ScoreIds : scores[u] > 0}

\* (variant) a commit that forgets the points the winner already has
IncScoreFresh(scores, u) == [scores EXCEPT ![u] = 1]

\* scores[winner_id] = scores.get(winner_id, 0) + 1   (resolution.py:57)
IncScore(scores, u) == [scores EXCEPT ![u] = @ + 1]

\* (variant) a reset that leaves winner_id as it is
reset_round_keeps_winner(s) ==
    [s EXCEPT !.correct_candidates = << >>, !.resolving = FALSE]

\* GameState.reset_round (common/state.py:45-48)
reset_round(s) ==
    [s EXCEPT !.winner_id = None, !.correct_candidates = << >>, !.resolving = FALSE]

\* end_game (trivia/lifecycle.py:56-59): the state it leaves
end_game(s) ==
    [s EXCEPT !.in_progress = FALSE, !.current_question = None,
              !.correct_candidates = << >>, !.resolving = FALSE]

\* (variant) a session counts as running as long as GAMES has an entry
Registered(c) == GAMES[c] # None

\* (variant) a test that never finds a session running
RunningUnchecked(c) == FALSE

\* GAMES.get(channel.id) is a state and state.in_progress  (bot.py:143-144, 194-195)
Running(c) == GAMES[c] # None /\ games[GAMES[c]].in_progress

\* An object id not yet given to a GameState, and a GameState that nothing
\* refers to any more (it is in no GAMES entry and no coroutine holds it),
\* hold this record.
NoGameState == end_game(NewGameState(None, MinRounds))

\* ------------------------------------------------------------ tasks
\* One record per suspended coroutine. kind: "ask" (ask_next_round),
\* "sched" (run_timeout_flow / handle_game_question_timeout), "res"
\* (resolve_round_winner), "end" (trivia_stop awaiting its response before
\* end_game). g: the GameState it holds; rnd: the round it captured;
\* q: the row it holds; lvl: the hint level of the scheduler's loop.
Task(kind, g, rnd, pc, q, lvl) ==
    [kind |-> kind, g |-> g, rnd |-> rnd, pc |-> pc, q |-> q, lvl |-> lvl]

TasksOf(kind, g) == {t \in tasks : t.kind = kind /\ t.g = g}

\* (variant) a re-check that does not look at winner_id
SchedulerBailsBlind(s, this_round) ==
    \/ ~s.in_progress
    \/ s.round # this_round

\* hints.py:91-95, 148-152: the scheduler's re-check at each checkpoint
SchedulerBails(s, this_round) ==
    \/ ~s.in_progress
    \/ s.winner_id # None
    \/ s.round # this_round

\* hints.py:91-96, 148-153: a scheduler sleeping before a checkpoint whose
\* re-check already fails can only wake up and return None, which changes
\* nothing; and the re-check of a round keeps failing once it fails (no
\* GameState goes back in progress, round only grows, and winner_id is
\* unset again only together with a new round or a stop). Such a scheduler
\* is dropped as soon as its round is closed. (The scheduler in its extra
\* sleep is kept: sched_grace is its wake-up.)
Returned(t, gs) ==
    /\ t.kind = "sched"
    /\ t.pc \in {"hint", "final"}
    /\ SchedulerBails(gs[t.g], t.rnd)

\* The step every action ends with: the coroutines that can still act, and
\* the GameState objects something still refers to.
Finish(nGAMES, ng, nh, nt) ==
    LET live == {t \in nt : ~Returned(t, ng)}
        Referred(g) == (\E c \in Channels : nGAMES[c] = g) \/ (\E t \in live : t.g = g)
    IN  /\ GAMES' = nGAMES
        /\ tasks' = live
        /\ games' = [g \in ObjIds |-> IF Referred(g) THEN ng[g] ELSE NoGameState]
        /\ hist' = [g \in ObjIds |-> IF Referred(g) THEN nh[g] ELSE NewHist]

\* ------------------------------------------------------------ selector
\* The four queries of trivia/manager.py, each as the set of rows it may
\* return (ORDER BY RANDOM() picks any of them; LIMIT 1).
Least(S) == {i \in S : \A j \in S : timesAsked[i] <= timesAsked[j]}

SQL_ZERO_NOT_USED(used) == {i \in approved : timesAsked[i] = 0 /\ i \notin used}
SQL_ZERO_ANY == {i \in approved : timesAsked[i] = 0}
SQL_LEAST_NOT_USED(used) == Least({i \in approved : i \notin used})
SQL_LEAST_ANY == Least(approved)

\* (variant) a selector that never consults the used list
SelectRowsAny(used) ==
    IF SQL_ZERO_ANY # {} THEN SQL_ZERO_ANY ELSE SQL_LEAST_ANY

\* get_random_question, manager.py:134-156: the ordered attempts; the rows
\* of the first attempt that returns a row (the empty set: no row at all).
\* The NOT_USED attempts are made only when the used list is not empty.
SelectRows(used) ==
    IF used # {} /\ SQL_ZERO_NOT_USED(used) # {} THEN SQL_ZERO_NOT_USED(used)
    ELSE IF SQL_ZERO_ANY # {} THEN SQL_ZERO_ANY
    ELSE IF used # {} /\ SQL_LEAST_NOT_USED(used) # {} THEN SQL_LEAST_NOT_USED(used)
    ELSE SQL_LEAST_ANY

\* manager.py:137-144: the attempts in order; attempts 1 and 3 are made only
\* when the used list is not empty
Attempts == 1..4

AttemptRows(n, used) ==
    CASE n = 1 -> IF used # {} THEN SQL_ZERO_NOT_USED(used) ELSE {}
      [] n = 2 -> SQL_ZERO_ANY
      [] n = 3 -> IF used # {} THEN SQL_LEAST_NOT_USED(used) ELSE {}
      [] n = 4 -> SQL_LEAST_ANY

\* manager.py:146-156 when the queries of the attempts in failed raise: the
\* exception is logged, row stays None and the loop goes on; the rows of
\* the first attempt that does not raise and returns a row.
SelectRowsFailing(used, failed) ==
    LET good == {n \in Attempts \ failed : AttemptRows(n, used) # {}}
    IN  IF good = {} THEN {}
        ELSE AttemptRows(CHOOSE n \in good : \A m \in good : n <= m, used)

\* is_correct_answer(message.content, current_question["answers"]) as the
\* listener uses it (bot.py:536): a message text is the id of the row whose
\* answer it gives (None: an answer to no row).
is_correct_answer(text, q) == text # None /\ text = q

\* ------------------------------------------------------------ text
\* A Python str is a sequence of one-character strings.
Strings(chars, lo, hi) == UNION {[1..n -> chars] : n \in lo..hi}

\* the whitespace str.strip() removes (of the characters used here)
Whitespace == {" "}

RECURSIVE lstrip(_)
lstrip(s) == IF s # << >> /\ Head(s) \in Whitespace THEN lstrip(Tail(s)) ELSE s

RECURSIVE rstrip(_)
rstrip(s) ==
    IF s # << >> /\ s[Len(s)] \in Whitespace THEN rstrip(SubSeq(s, 1, Len(s) - 1)) ELSE s

\* str.strip()
strip(s) == rstrip(lstrip(s))

\* str.lower(), on the characters used here
LowerChar(ch) ==
    CASE ch = "A" -> "a"
      [] ch = "S" -> "s"
      [] ch = "Y" -> "y"
      [] ch = "B" -> "b"
      [] ch = "T" -> "t"
      [] OTHER -> ch

lower(s) == [i \in 1..Len(s) |-> LowerChar(s[i])]

\* needle in hay (the empty str is in every str)
Contains(hay, needle) ==
    \E i \in 1..(Len(hay) - Len(needle) + 1) :
        SubSeq(hay, i, i + Len(needle) - 1) = needle

\* ------------------------------------------------------------ hint 3 commentary
\* hints.py:127, "Yeah... that was dangerously close." ("^" stands for the
\* one-character ellipsis U+2026)
Fallback ==
    << "Y", "e", "a", "h", "^", " ", "t", "h", "a", "t", " ", "w", "a", "s", " ",
       "d", "a", "n", "g", "e", "r", "o", "u", "s", "l", "y", " ",
       "c", "l", "o", "s", "e", "." >>

\* commentary.py:159-181: the stripped content of the completion, or "" when
\* the call raises (no connection, the 10 s timeout, a content of None)
generate_reply(outcome) == IF outcome.raised THEN << >> ELSE strip(outcome.content)

\* hints.py:125-137: the commentary line sent under hint 3 (<< >>: the bare
\* hint is sent, without a commentary line)
hint_3_sarcasm(main_answer, sarcasm) ==
    IF sarcasm = << >> THEN << >>
    ELSE LET checked == IF Contains(lower(sarcasm), lower(main_answer))
                        THEN Fallback ELSE sarcasm
         IN  IF Len(checked) > CommentaryCap
             THEN SubSeq(checked, 1, CommentaryCap) ELSE checked

\* hints.py:119-137, for one question and one outcome of the commentary call
hint_3_send ==
    /\ io.fn = "hint_3" /\ ~io.done
    /\ io' = [io EXCEPT !.done = TRUE,
                        !.line = hint_3_sarcasm(io.answer, generate_reply(io.outcome))]
    /\ UNCHANGED <<GAMES, games, created, tasks, usedInSession, timesAsked, handed,
                   approved, qlock, reply, hist>>

\* ------------------------------------------------------------ answer classifier
\* Characters for which str.isdigit() is true: the decimal digits and, as
\* "~", the superscript two (U+00B2), a digit that int() does not accept.
DecimalDigits == {"0", "1"}
Superscript == "~"

\* the value int() gives a str it cannot parse (it raises ValueError)
ValueError == -1

DigitValue(ch) == IF ch = "0" THEN 0 ELSE 1

\* str.isdigit(): not empty and every character is a digit
isdigit(t) ==
    t # << >> /\ \A i \in 1..Len(t) : t[i] \in DecimalDigits \cup {Superscript}

\* fuzzy.py:29-32
is_numeric(text) == isdigit(strip(text))

\* fuzzy.py:35-37
all_numeric(answers) == \A i \in 1..Len(answers) : is_numeric(answers[i])

RECURSIVE DecimalValue(_)
DecimalValue(t) ==
    IF t = << >> THEN 0
    ELSE 10 * DecimalValue(SubSeq(t, 1, Len(t) - 1)) + DigitValue(t[Len(t)])

\* int(text): surrounding whitespace is ignored, leading zeros are allowed
int(text) ==
    LET t == strip(text) IN
    IF t = << >> \/ \E i \in 1..Len(t) : t[i] \notin DecimalDigits
    THEN ValueError ELSE DecimalValue(t)

\* (variant) a numeric mode that compares the texts
numeric_match_text(user_answer, correct_answers) ==
    /\ is_numeric(user_answer)
    /\ \E i \in 1..Len(correct_answers) : user_answer = strip(correct_answers[i])

\* fuzzy.py:109-117: numeric mode, user_answer already stripped
numeric_match(user_answer, correct_answers) ==
    IF ~is_numeric(user_answer) THEN FALSE
    ELSE IF \/ int(user_answer) = ValueError
            \/ \E i \in 1..Len(correct_answers) : int(correct_answers[i]) = ValueError
         THEN FALSE
         ELSE \E i \in 1..Len(correct_answers) : int(user_answer) = int(correct_answers[i])

\* fuzzy.py:120
all_single_char(answers) == \A i \in 1..Len(answers) : Len(strip(answers[i])) = 1

\* (variant) a single-character mode that compares the texts as written
single_char_match_cased(user_answer, correct_answers) ==
    \E i \in 1..Len(correct_answers) : user_answer = strip(correct_answers[i])

\* fuzzy.py:120-124: single-character mode, user_answer already stripped
single_char_match(user_answer, correct_answers) ==
    \E i \in 1..Len(correct_answers) : lower(user_answer) = lower(strip(correct_answers[i]))

\* ------------------------------------------------------------ text mode
\* fuzzy.py:6-18
STOPWORDS ==
    { <<"t", "h", "e">>, <<"a">>, <<"a", "n">>, <<"o", "f">>, <<"a", "n", "d">>,
      <<"o", "r">>, <<"t", "o">>, <<"i", "n">>, <<"o", "n">>, <<"a", "t">>,
      <<"f", "o", "r">> }

\* fuzzy.py:24, the characters normalize() removes (of the characters used here)
Punctuation == {".", "?"}

\* str.split(): the maximal runs of non-whitespace characters
RECURSIVE split(_)
split(s) ==
    LET t == lstrip(s) IN
    IF t = << >> THEN << >>
    ELSE LET ends == {i \in 1..Len(t) : t[i] \in Whitespace}
             n == IF ends = {} THEN Len(t) + 1
                  ELSE CHOOSE i \in ends : \A k \in ends : i <= k
         IN  <<SubSeq(t, 1, n - 1)>> \o split(SubSeq(t, n, Len(t)))

\* " ".join(tokens)
RECURSIVE join(_)
join(tokens) ==
    IF tokens = << >> THEN << >>
    ELSE IF Len(tokens) = 1 THEN tokens[1]
    ELSE tokens[1] \o <<" ">> \o join(Tail(tokens))

\* text.replace(ch, "") for every ch of fuzzy.py:24
RECURSIVE remove_punctuation(_)
remove_punctuation(s) ==
    IF s = << >> THEN << >>
    ELSE IF Head(s) \in Punctuation THEN remove_punctuation(Tail(s))
    ELSE <<Head(s)>> \o remove_punctuation(Tail(s))

\* fuzzy.py:21-26
normalize(text) == join(split(remove_punctuation(lower(strip(text)))))

\* difflib.SequenceMatcher.find_longest_match without junk (the automatic
\* junk heuristic needs a second sequence of 200 or more characters): the
\* length of the block starting at a[i] and b[j]
RECURSIVE block_len(_, _, _, _, _, _)
block_len(a, b, i, j, ahi, bhi) ==
    IF i > ahi \/ j > bhi \/ a[i] # b[j] THEN 0
    ELSE 1 + block_len(a, b, i + 1, j + 1, ahi, bhi)

\* the longest block of a[alo..ahi] and b[blo..bhi]: of the longest ones the
\* one that starts earliest in a, and of those the one that starts earliest
\* in b
find_longest_match(a, b, alo, ahi, blo, bhi) ==
    LET starts == (alo..ahi) \X (blo..bhi)
        size(p) == block_len(a, b, p[1], p[2], ahi, bhi)
        best == CHOOSE p \in starts :
                    \A r \in starts :
                        \/ size(p) > size(r)
                        \/ /\ size(p) = size(r)
                           /\ \/ p[1] < r[1]
                              \/ p[1] = r[1] /\ p[2] <= r[2]
    IN  <<best[1], best[2], size(best)>>

\* difflib.SequenceMatcher.get_matching_blocks: the total size of the
\* blocks, found by splitting around the longest block
RECURSIVE matches(_, _, _, _, _, _)
matches(a, b, alo, ahi, blo, bhi) ==
    IF alo > ahi \/ blo > bhi THEN 0
    ELSE LET m == find_longest_match(a, b, alo, ahi, blo, bhi) IN
         IF m[3] = 0 THEN 0
         ELSE m[3] + matches(a, b, alo, m[1] - 1, blo, m[2] - 1)
                   + matches(a, b, m[1] + m[3], ahi, m[2] + m[3], bhi)

\* SequenceMatcher(None, a, b).ratio() >= num / 10: ratio() is
\* 2.0 * matches / (len(a) + len(b)), and 1.0 for two empty sequences
ratio_at_least(a, b, num) ==
    \/ Len(a) + Len(b) = 0
    \/ 20 * matches(a, b, 1, Len(a), 1, Len(b)) >= num * (Len(a) + Len(b))

\* what a call of is_fuzzy_match does: it returns True or False, or an
\* exception leaves it
Returns(b) == IF b THEN "True" ELSE "False"

Abs(n) == IF n < 0 THEN -n ELSE n

\* (variant) a guard that looks at the submission only
NormalizedEmptyUser(ua, ca) == ua = << >>

\* fuzzy.py:48
NormalizedEmpty(ua, ca) == ua = << >> \/ ca = << >>

\* (variant) no substring rule
substring_match_off(ua, ca) == FALSE

\* fuzzy.py:89-91, on the normalized texts
substring_match(ua, ca) ==
    /\ Len(split(ca)) > 1 /\ Len(ua) >= 3 /\ Len(split(ua)) >= 2
    /\ (Contains(ca, ua) \/ Contains(ua, ca))

\* fuzzy.py:40-95, threshold in tenths
is_fuzzy_match(user_answer, correct_answer, threshold) ==
    LET ua == normalize(user_answer)
        ca == normalize(correct_answer)
        ua_tokens == split(ua)
        ca_tokens == split(ca)
        multi_word_correct == Len(ca_tokens) > 1
    IN  IF NormalizedEmpty(ua, ca) THEN "False"
        ELSE IF \A i \in 1..Len(ua_tokens) : ua_tokens[i] \in STOPWORDS THEN "False"
        ELSE IF ua = ca THEN "True"
        ELSE IF ~multi_word_correct /\ Len(ca) <= ShortAnswerLen
             THEN IF ua = << >> \/ ca = << >> THEN "IndexError"
                  ELSE IF ua[1] # ca[1] THEN "False"
                  ELSE Returns(ratio_at_least(ua, ca, ShortThreshold))
        ELSE IF ~multi_word_correct /\ Abs(Len(ua) - Len(ca)) > MaxLenDiff THEN "False"
        ELSE IF ~multi_word_correct /\ (ua = << >> \/ ca = << >>) THEN "IndexError"
        ELSE IF ~multi_word_correct /\ ua[1] # ca[1] /\ ua[Len(ua)] # ca[Len(ca)]
             THEN "False"
        ELSE IF substring_match(ua, ca) THEN "True"
        ELSE Returns(ratio_at_least(ua, ca, threshold))

\* (variant) text mode with the stricter threshold throughout
RECURSIVE text_match_strict(_, _)
text_match_strict(user_answer, correct_answers) ==
    IF correct_answers = << >> THEN "False"
    ELSE LET r == is_fuzzy_match(user_answer, Head(correct_answers), ShortThreshold)
         IN  IF r = "False" THEN text_match_strict(user_answer, Tail(correct_answers))
             ELSE r

\* fuzzy.py:127-131: the loop over the expected answers
RECURSIVE text_match(_, _)
text_match(user_answer, correct_answers) ==
    IF correct_answers = << >> THEN "False"
    ELSE LET r == is_fuzzy_match(user_answer, Head(correct_answers), DefaultThreshold)
         IN  IF r = "False" THEN text_match(user_answer, Tail(correct_answers)) ELSE r

\* fuzzy.py:98-131: what a call of is_correct_answer on texts does
is_correct_answer_call(user_answer, correct_answers) ==
    IF all_numeric(correct_answers)
    THEN Returns(numeric_match(strip(user_answer), correct_answers))
    ELSE IF all_single_char(correct_answers)
    THEN Returns(single_char_match(strip(user_answer), correct_answers))
    ELSE text_match(strip(user_answer), correct_answers)

\* the exception that leaves a call ("none": it returns)
Raised(outcome) == IF outcome \in {"True", "False"} THEN "none" ELSE outcome

\* fuzzy.py:98-131: the value is_correct_answer returns
is_correct_answer_str(user_answer, correct_answers) ==
    is_correct_answer_call(user_answer, correct_answers) = "True"

\* bot.py:536, for one message text and one question
classify ==
    /\ io.fn = "is_correct_answer" /\ ~io.done
    /\ LET outcome == is_correct_answer_call(io.user, io.expected)
       IN  io' = [io EXCEPT !.done = TRUE,
                            !.result = (outcome = "True"),
                            !.raised = Raised(outcome)]
    /\ UNCHANGED <<GAMES, games, created, tasks, usedInSession, timesAsked, handed,
                   approved, qlock, reply, hist>>

\* ------------------------------------------------------------ scramble
\* "".join(reversed(word))
reversed(word) == [i \in 1..Len(word) |-> word[Len(word) + 1 - i]]

\* state.py:67, the loop condition
shuffle_again(word, scrambled, attempts) == scrambled = word /\ attempts < ShuffleAttempts

\* state.py:67-70, one pass of the loop: random.shuffle(letters) leaves
\* the letters in any order
scramble_shuffle ==
    /\ io.fn = "scramble" /\ ~io.done
    /\ Len(io.word) >= 2
    /\ shuffle_again(io.word, io.scrambled, io.attempts)
    /\ \E order \in Permutations(1..Len(io.letters)) :
          LET shuffled == [i \in 1..Len(io.letters) |-> io.letters[order[i]]]
          IN  io' = [io EXCEPT !.letters = shuffled,
                               !.scrambled = shuffled,
                               !.attempts = @ + 1]
    /\ UNCHANGED <<GAMES, games, created, tasks, usedInSession, timesAsked, handed,
                   approved, qlock, reply, hist>>

\* state.py:58-59 and 72-76: the return of a short word, and the end of the
\* loop with the fallback
scramble_return ==
    /\ io.fn = "scramble" /\ ~io.done
    /\ Len(io.word) < 2 \/ ~shuffle_again(io.word, io.scrambled, io.attempts)
    /\ io' = [io EXCEPT !.done = TRUE,
                        !.scrambled = IF Len(io.word) >= 2 /\ io.scrambled = io.word
                                      THEN reversed(io.word) ELSE io.scrambled]
    /\ UNCHANGED <<GAMES, games, created, tasks, usedInSession, timesAsked, handed,
                   approved, qlock, reply, hist>>

\* ------------------------------------------------------------ build_hint
\* hints.py:42, the one-character bullet U+2022 that masks a letter
Mask == "*"

Max(a, b) == IF a >= b THEN a ELSE b

\* (variant) a level 1 that shows half a word and a level 2 that shows a
\* quarter
show_swapped(length, level) ==
    IF length <= 3 THEN 1
    ELSE IF level = 1 THEN Max(1, length \div 2)
    ELSE IF level = 2 THEN Max(1, length \div 4)
    ELSE Max(1, (3 * length) \div 4)

\* hints.py:31-39: how many characters of a word of this length are shown
show(length, level) ==
    IF length <= 3 THEN 1
    ELSE IF level = 1 THEN Max(1, length \div 4)
    ELSE IF level = 2 THEN Max(1, length \div 2)
    ELSE Max(1, (3 * length) \div 4)

\* hints.py:41-43: visible + hidden
hint_word(w, level) ==
    LET n == show(Len(w), level)
    IN  SubSeq(w, 1, n) \o [i \in 1..(Len(w) - n) |-> Mask]

\* hints.py:19-45 (answer.split() yields no empty word)
build_hint(answer, level) ==
    LET words == split(answer)
    IN  join([i \in 1..Len(words) |-> hint_word(words[i], level)])

\* hints.py:90, 103: the hint loop calls build_hint for the levels 1, 2, 3
\* in turn, on the same answer
build_hint_call ==
    /\ io.fn = "build_hint"
    /\ Len(io.hints) < 3
    /\ io' = [io EXCEPT !.hints = Append(@, build_hint(io.answer, Len(@) + 1))]
    /\ UNCHANGED <<GAMES, games, created, tasks, usedInSession, timesAsked, handed,
                   approved, qlock, reply, hist>>

\* ------------------------------------------------------------ initial states
\* The process has just started: no session, no task, an empty used set.
\* The questions table outlives the process: approved and times_asked are
\* whatever earlier runs left.
Idle(pools, counts, replies) ==
    /\ GAMES = [c \in Channels |-> None]
    /\ games = [g \in ObjIds |-> NoGameState]
    /\ hist = [g \in ObjIds |-> NewHist]
    /\ created = 0
    /\ tasks = {}
    /\ usedInSession = {}
    /\ qlock = FALSE
    /\ reply = replies
    /\ approved \in pools
    /\ timesAsked \in counts
    /\ handed = [i \in Items |-> 0]

\* no text function is examined
NoCall == [fn |-> "none"]

InitWith(pools, counts, replies) == Idle(pools, counts, replies) /\ io = NoCall

\* interaction.response.send_message(...)
Respond(r) == reply' = IF reply = "untracked" THEN reply ELSE r

\* a step that is not a slash command sends no interaction response
Quiet == Respond("none")

\* ------------------------------------------------------------ /trivia
\* (variant) a bound check that is off by one at the lower end
BadRoundsStrict(rounds) == rounds <= MinRounds \/ rounds > MaxRoundsLimit

\* bot.py:135
BadRounds(rounds) == rounds < MinRounds \/ rounds > MaxRoundsLimit

\* bot.py:117-171. c = None: interaction.channel is None.
\* reset_session_questions() runs before every check (bot.py:123).
\* cap bounds the GameState objects a behaviour creates.
trivia(c, rounds, cap) ==
    /\ usedInSession' = {}
    /\ IF c = None THEN
            /\ Respond("no_channel")
            /\ UNCHANGED <<GAMES, games, hist, tasks, created>>
       ELSE IF BadRounds(rounds) THEN
            /\ Respond("bad_rounds")
            /\ UNCHANGED <<GAMES, games, hist, tasks, created>>
       ELSE IF Running(c) THEN
            /\ Respond("already_running")
            /\ UNCHANGED <<GAMES, games, hist, tasks, created>>
       ELSE
            LET g == created + 1 IN
            /\ created < cap
            /\ created' = g
            /\ Respond("started")
            \* await ask_next_round(channel, state), after the response is sent
            /\ Finish([GAMES EXCEPT ![c] = g],
                      [games EXCEPT ![g] = NewGameState(c, rounds)],
                      [hist EXCEPT ![g] = NewHist],
                      tasks \cup {Task("ask", g, 0, "call", None, 0)})
    /\ UNCHANGED <<timesAsked, handed, io, approved, qlock>>

\* ------------------------------------------------------------ /trivia_stop
\* bot.py:196-200
StopFields(s) ==
    [s EXCEPT !.in_progress = FALSE, !.current_question = None, !.winner_id = None,
              !.correct_candidates = << >>, !.resolving = FALSE]

\* bot.py:178-219. With scores to show, end_game runs after the response
\* has been awaited (bot.py:206-210).
trivia_stop(c) ==
    /\ IF c = None THEN
            /\ Respond("no_channel")
            /\ UNCHANGED <<GAMES, games, hist, tasks>>
       ELSE IF Running(c) THEN
            LET g == GAMES[c]
                s == games[g]
            IN  IF ScoreKeys(s.scores) # {}
                THEN /\ Respond("stopped_scoreboard")
                     /\ Finish(GAMES, [games EXCEPT ![g] = StopFields(s)], hist,
                               tasks \cup {Task("end", g, 0, "respond", None, 0)})
                ELSE /\ Respond("stopped_no_scores")
                     /\ Finish(GAMES, [games EXCEPT ![g] = StopFields(s)], hist, tasks)
       ELSE
            /\ Respond("nothing_running")
            /\ UNCHANGED <<GAMES, games, hist, tasks>>
    /\ UNCHANGED <<created, usedInSession, timesAsked, handed, io, approved, qlock>>

\* bot.py:210 -> lifecycle.py:54-59, on the state trivia_stop holds
stop_end_game(t) ==
    /\ t.kind = "end"
    /\ Finish(GAMES, [games EXCEPT ![t.g] = end_game(@)], hist, tasks \ {t})
    /\ Quiet
    /\ UNCHANGED <<created, usedInSession, timesAsked, handed, io, approved, qlock>>

\* ------------------------------------------------------------ on_message
\* (variant) a trigger that does not look at winner_id
ShouldArmUnguarded(cands, winner) == Len(cands) = 1

\* bot.py:542: this is the first correct answer seen and the round is open
ShouldArm(cands, winner) == Len(cands) = 1 /\ winner = None

\* bot.py:514-549, for a message of a user (not a bot) in channel c with
\* created_at = ts. A candidate keeps its message (author, created_at) and,
\* as an observation, the round whose question it was classified against.
on_message(c, u, ts, text) ==
    LET g == GAMES[c] IN
    IF g # None /\ games[g].in_progress /\ games[g].current_question # None
    THEN
        LET s == games[g] IN
        IF is_correct_answer(text, s.current_question)
        THEN
            LET cands == Append(s.correct_candidates,
                                [user |-> u, ts |-> ts, rnd |-> s.round])
                arm == ShouldArm(cands, s.winner_id)
            IN  /\ hist[g].subs < MaxSubs
                /\ Finish(GAMES,
                          [games EXCEPT ![g] =
                              [s EXCEPT !.correct_candidates = cands,
                                        !.resolving = IF arm THEN TRUE ELSE @]],
                          [hist EXCEPT ![g] =
                              [@ EXCEPT !.subs = @ + 1,
                                        !.armed = IF arm THEN @ + 1 ELSE @]],
                          IF arm
                          THEN tasks \cup {Task("res", g, s.round, "grace", None, 0)}
                          ELSE tasks)
                /\ Quiet
    /\ UNCHANGED <<created, usedInSession, timesAsked, handed, io, approved, qlock>>
        ELSE Quiet /\ UNCHANGED <<GAMES, games, created, tasks, usedInSession,
                                   timesAsked, handed, io, approved, qlock, hist>>
    ELSE Quiet /\ UNCHANGED <<GAMES, games, created, tasks, usedInSession,
                               timesAsked, handed, io, approved, qlock, hist>>

\* ------------------------------------------------------------ resolver
\* (variant) a re-validation that does not look at winner_id
ResolverBailsBlind(s, round_number) ==
    \/ ~s.in_progress
    \/ s.current_question = None
    \/ s.round # round_number

\* resolution.py:27-32
ResolverBails(s, round_number) ==
    \/ ~s.in_progress
    \/ s.current_question = None
    \/ s.winner_id # None
    \/ s.round # round_number

\* (variant) the first candidate to arrive wins
PickFirst(cands) == cands[1]

\* resolution.py:44-47: min(candidates, key=created_at) is the first of the
\* candidates with the least created_at
PickWinner(cands) ==
    cands[CHOOSE i \in 1..Len(cands) :
            \A j \in 1..Len(cands) :
                cands[i].ts < cands[j].ts \/ (cands[i].ts = cands[j].ts /\ i <= j)]

\* (variant) a commit that adds the point without marking the round resolved
CommitUnmarked(s, w) == [s EXCEPT !.scores = IncScore(@, w.user)]

\* resolution.py:53-57: mark resolved, add the point
Commit(s, w) == [s EXCEPT !.winner_id = w.user, !.scores = IncScore(@, w.user)]

\* resolution.py:24-67: the resolver wakes from its grace window; it bails
\* (clearing resolving) or commits the winner and calls award_points.
resolver_wake(t) ==
    /\ t.kind = "res" /\ t.pc = "grace"
    /\ LET s == games[t.g] IN
       IF ResolverBails(s, t.rnd) \/ s.correct_candidates = << >>
       THEN Finish(GAMES, [games EXCEPT ![t.g].resolving = FALSE], hist, tasks \ {t})
       ELSE LET w == PickWinner(s.correct_candidates) IN
            Finish(GAMES,
                   [games EXCEPT ![t.g] = Commit(s, w)],
                   [hist EXCEPT ![t.g] =
                       [@ EXCEPT !.commits = @ + 1, !.awards = @ + 1, !.locks = @ + 1,
                                 !.winTs = w.ts, !.wins[w.user] = @ + 1]],
                   (tasks \ {t}) \cup {[t EXCEPT !.pc = "award"]})
    /\ Quiet
    /\ UNCHANGED <<created, usedInSession, timesAsked, handed, io, approved, qlock>>

\* db.py:118-151 raises (no pool, a failed statement): nothing in
\* resolve_round_winner catches it, the task ends there.
award_points_fails(t) ==
    /\ t.kind = "res" /\ t.pc = "award"
    /\ Finish(GAMES, games, hist, tasks \ {t})
    /\ Quiet
    /\ UNCHANGED <<created, usedInSession, timesAsked, handed, io, approved, qlock>>

\* resolution.py:79-86
QuipDue(s) ==
    /\ s.max_rounds >= QuipMinRounds
    /\ s.round = s.max_rounds \div 2
    /\ ~s.midgame_quip_done

\* (variant) a clear that leaves the candidates in place
ClearRoundKeepsCandidates(s) ==
    [s EXCEPT !.midgame_quip_done = IF QuipDue(s) THEN TRUE ELSE @,
              !.resolving = FALSE]

\* resolution.py:86-92
ClearRound(s) ==
    [s EXCEPT !.midgame_quip_done = IF QuipDue(s) THEN TRUE ELSE @,
              !.correct_candidates = << >>,
              !.resolving = FALSE]

\* resolution.py:69-92: award_points returned. Reading the answer of
\* current_question raises when the session was stopped meanwhile
\* (current_question is None); otherwise the result is sent, the quip is
\* triggered, candidates and resolving are cleared. The task created for
\* handle_midgame_quip requests the commentary (commentary.py:186-218: the
\* session has max_rounds >= 15 and the winner's score). (What can happen while
\* the result message is sent can as well happen while award_points runs,
\* with the same state after the clear.)
resolver_awarded(t) ==
    /\ t.kind = "res" /\ t.pc = "award"
    /\ IF games[t.g].current_question = None
       THEN Finish(GAMES, games, hist, tasks \ {t})
       ELSE Finish(GAMES, [games EXCEPT ![t.g] = ClearRound(@)],
                   [hist EXCEPT ![t.g] =
                       [@ EXCEPT !.winTs = None,
                                 !.quips = IF QuipDue(games[t.g]) THEN @ + 1 ELSE @]],
                   (tasks \ {t}) \cup {[t EXCEPT !.pc = "transition"]})
    /\ Quiet
    /\ UNCHANGED <<created, usedInSession, timesAsked, handed, io, approved, qlock>>

\* (variant) a last-round test that is off by one
LastRoundLate(s) == s.round > s.max_rounds

\* resolution.py:96, lifecycle.py:45
LastRound(s) == s.round >= s.max_rounds

\* lifecycle.py:63-88 -> commentary.py:186-218: with a scoreboard to show,
\* end_game calls handle_midgame_quip, which requests the commentary when
\* max_rounds >= 15
EndQuip(s) == ScoreKeys(s.scores) # {} /\ s.max_rounds >= QuipMinRounds

\* (variant) an advancement that never ends the game
AdvanceAlways(t) ==
    Finish(GAMES, games, [hist EXCEPT ![t.g].advances = @ + 1],
           (tasks \ {t}) \cup {Task("ask", t.g, 0, "call", None, 0)})

\* (variant) a closing path that returns without advancing
AdvanceNever(t) == Finish(GAMES, games, hist, tasks \ {t})

\* resolution.py:96-105, lifecycle.py:45-48: end the game, or ask the next
\* round (the coroutine t goes on as ask_next_round)
AdvanceOrEnd(t) ==
    IF LastRound(games[t.g])
    THEN Finish(GAMES, [games EXCEPT ![t.g] = end_game(@)],
                [hist EXCEPT ![t.g] =
                    [@ EXCEPT !.advances = @ + 1,
                              !.quips = IF EndQuip(games[t.g]) THEN @ + 1 ELSE @]],
                tasks \ {t})
    ELSE Finish(GAMES, games, [hist EXCEPT ![t.g].advances = @ + 1],
                (tasks \ {t}) \cup {Task("ask", t.g, 0, "call", None, 0)})

\* resolution.py:94-105: after ROUND_TRANSITION_DELAY. The delay is longer
\* than the scheduler's extra sleep, which began before this resolver woke
\* from its grace window: that scheduler has woken by now.
resolver_advance(t) ==
    /\ t.kind = "res" /\ t.pc = "transition"
    /\ ~\E d \in TasksOf("sched", t.g) : d.pc = "grace"
    /\ AdvanceOrEnd(t)
    /\ Quiet
    /\ UNCHANGED <<created, usedInSession, timesAsked, handed, io, approved, qlock>>

\* ------------------------------------------------------------ ask_next_round
\* (variant) a selector that does not wait for the lock
LockIgnored == TRUE

\* manager.py:130: async with _question_lock is entered only when no other
\* call holds the lock
LockFree == ~qlock

\* (variant) an early end that leaves the last question in place
NoRowKeepsItem(s) == [s EXCEPT !.in_progress = FALSE]

\* lifecycle.py:20-21: the selector returned None
NoRow(s) == [s EXCEPT !.in_progress = FALSE, !.current_question = None]

\* lifecycle.py:15 -> manager.py:130-166: under _question_lock, in one
\* transaction, a row is selected and marked used; with no row the round
\* is not opened and the session ends (lifecycle.py:16-22). The selector is
\* called as manager.py defines it (bot.py:315). rows: what the attempts
\* of this call yield.
select_step(t, rows) ==
    /\ t.kind = "ask" /\ t.pc = "call"
    /\ LockFree
    /\ IF rows = {}
       THEN /\ Finish(GAMES, [games EXCEPT ![t.g] = NoRow(@)], hist, tasks \ {t})
            /\ UNCHANGED <<usedInSession, qlock>>
       ELSE \E q \in rows :
            /\ usedInSession' = usedInSession \cup {q}
            /\ qlock' = TRUE
            /\ Finish(GAMES, games, hist,
                      (tasks \ {t}) \cup {[t EXCEPT !.pc = "picked", !.q = q]})
    /\ Quiet
    /\ UNCHANGED <<created, timesAsked, handed, io, approved>>

\* the call when every query succeeds
ask_select(t) == select_step(t, SelectRows(usedInSession))

\* the call when the queries of some attempts raise (a dropped connection,
\* a statement timeout, an aborted transaction)
ask_select_failing(t) ==
    \E failed \in SUBSET Attempts :
        /\ failed # {}
        /\ select_step(t, SelectRowsFailing(usedInSession, failed))

\* (variant) an increment written back from a stale read
SQL_SET_ONE(counts, qid) == [counts EXCEPT ![qid] = 1]

\* manager.py:86-90, 169: UPDATE questions SET times_asked = times_asked + 1
\* WHERE id = qid
SQL_INCREMENT(counts, qid) == [counts EXCEPT ![qid] = @ + 1]

\* (variant) an opening that does not empty the candidates
OpenRoundKeepsCandidates(s, q) ==
    [s EXCEPT !.round = @ + 1, !.current_question = q,
              !.winner_id = None, !.resolving = FALSE]

\* lifecycle.py:24-26
OpenRound(s, q) ==
    reset_round([s EXCEPT !.round = @ + 1, !.current_question = q])

\* manager.py:169-174, lifecycle.py:24-51: times_asked is incremented, the
\* row returned (and counted in handed), the lock released, the round
\* opened and its timeout flow started; the flow captures the round and the
\* question at its start (hints.py:61-62). The question message is sent
\* between the two (lifecycle.py:28); the flow then sleeps
\* HINT_DELAY_SECONDS before it first looks at the state, so it is taken to
\* start with the round.
ask_open(t) ==
    /\ t.kind = "ask" /\ t.pc = "picked"
    /\ timesAsked' = SQL_INCREMENT(timesAsked, t.q)
    /\ handed' = [handed EXCEPT ![t.q] = @ + 1]
    /\ qlock' = FALSE
    /\ Finish(GAMES,
              [games EXCEPT ![t.g] = OpenRound(@, t.q)],
              [hist EXCEPT ![t.g] = [NewHist EXCEPT !.got = hist[t.g].got \cup {t.q},
                                                    !.wins = hist[t.g].wins,
                                                    !.quips = hist[t.g].quips]],
              (tasks \ {t}) \cup
                  {Task("sched", t.g, games[t.g].round + 1, "hint", t.q, 1)})
    /\ Quiet
    /\ UNCHANGED <<created, usedInSession, approved, io>>

\* ------------------------------------------------------------ scheduler
\* hints.py:90-140: one checkpoint of the hint loop passed. Hints 1 and 2
\* are sent at once; hint 3 first awaits the commentary line.
sched_hint(t) ==
    /\ t.kind = "sched" /\ t.pc = "hint"
    /\ ~SchedulerBails(games[t.g], t.rnd)
    /\ IF t.lvl < 3
       THEN Finish(GAMES, games, hist, (tasks \ {t}) \cup {[t EXCEPT !.lvl = @ + 1]})
       ELSE Finish(GAMES, games, hist, (tasks \ {t}) \cup {[t EXCEPT !.pc = "commentary"]})
    /\ Quiet
    /\ UNCHANGED <<created, usedInSession, timesAsked, handed, io, approved, qlock>>

\* hints.py:119-143: the commentary call returned, hint 3 is sent, the
\* final wait starts
sched_hint3_sent(t) ==
    /\ t.kind = "sched" /\ t.pc = "commentary"
    /\ Finish(GAMES, games, hist, (tasks \ {t}) \cup {[t EXCEPT !.pc = "final"]})
    /\ Quiet
    /\ UNCHANGED <<created, usedInSession, timesAsked, handed, io, approved, qlock>>

\* (variant) a timeout that empties the candidates without closing the round
LockRoundUnmarked(s) == [s EXCEPT !.correct_candidates = << >>]

\* (variant) a timeout that books the round under the sentinel
LockRoundScored(s) ==
    [s EXCEPT !.winner_id = NoWinner, !.correct_candidates = << >>,
              !.scores = IncScore(@, NoWinner)]

\* hints.py:155-157
LockRound(s) == [s EXCEPT !.winner_id = NoWinner, !.correct_candidates = << >>]

\* hints.py:148-157: the last check passed; the round is locked, no winner
FinalCheck(t) ==
    /\ ~SchedulerBails(games[t.g], t.rnd)
    /\ Finish(GAMES,
              [games EXCEPT ![t.g] = LockRound(@)],
              [hist EXCEPT ![t.g].locks = @ + 1],
              (tasks \ {t}) \cup {[t EXCEPT !.pc = "locked"]})

\* hints.py:143-157: the final wait is over. With a resolution in flight
\* the scheduler sleeps WINNER_RESOLUTION_DELAY + 0.1 more.
sched_final(t) ==
    /\ t.kind = "sched" /\ t.pc = "final"
    /\ IF games[t.g].resolving
       THEN Finish(GAMES, games, hist, (tasks \ {t}) \cup {[t EXCEPT !.pc = "grace"]})
       ELSE FinalCheck(t)
    /\ Quiet
    /\ UNCHANGED <<created, usedInSession, timesAsked, handed, io, approved, qlock>>

\* hints.py:146-157: the extra sleep is over. It is longer than the
\* resolver's WINNER_RESOLUTION_DELAY, so a resolver that was sleeping when
\* it began has woken first (the loop runs timers in deadline order).
sched_grace(t) ==
    /\ t.kind = "sched" /\ t.pc = "grace"
    /\ ~\E r \in TasksOf("res", t.g) : r.pc = "grace"
    /\ IF SchedulerBails(games[t.g], t.rnd)
       THEN Finish(GAMES, games, hist, tasks \ {t})
       ELSE FinalCheck(t)
    /\ Quiet
    /\ UNCHANGED <<created, usedInSession, timesAsked, handed, io, approved, qlock>>

\* hints.py:159-189 returns "timeout"; lifecycle.py:38-48 (run_timeout_flow)
\* ends the game or asks the next round unless the session was stopped.
sched_timeout(t) ==
    /\ t.kind = "sched" /\ t.pc = "locked"
    /\ IF ~games[t.g].in_progress
       THEN Finish(GAMES, games, hist, tasks \ {t})
       ELSE AdvanceOrEnd(t)
    /\ Quiet
    /\ UNCHANGED <<created, usedInSession, timesAsked, handed, io, approved, qlock>>

\* ------------------------------------------------------------ scramble scheduler
\* handle_scramble_timeout works on the same GameState and is started by
\* ask_next_scramble_round as handle_game_question_timeout is by
\* ask_next_round. scramble_hints.py:60-90: a checkpoint passed, hint 1 or
\* hint 2 is sent at once; after hint 2 the final wait starts.
scramble_hint(t) ==
    /\ t.kind = "sched" /\ t.pc = "hint"
    /\ ~SchedulerBails(games[t.g], t.rnd)
    /\ IF t.lvl < 2
       THEN Finish(GAMES, games, hist, (tasks \ {t}) \cup {[t EXCEPT !.lvl = @ + 1]})
       ELSE Finish(GAMES, games, hist, (tasks \ {t}) \cup {[t EXCEPT !.pc = "final"]})
    /\ Quiet
    /\ UNCHANGED <<created, usedInSession, timesAsked, handed, io, approved, qlock>>

\* scramble_hints.py:95-106: the final wait is over; the last check is
\* made at once, whether a resolution is in flight or not
scramble_final(t) ==
    /\ t.kind = "sched" /\ t.pc = "final"
    /\ FinalCheck(t)
    /\ Quiet
    /\ UNCHANGED <<created, usedInSession, timesAsked, handed, io, approved, qlock>>

\* scramble_hints.py:108-112 returns "timeout"; scramble_lifecycle.py:36-43
\* ends the game or asks the next round unless the session was stopped
scramble_timeout(t) ==
    /\ t.kind = "sched" /\ t.pc = "locked"
    /\ IF ~games[t.g].in_progress
       THEN Finish(GAMES, games, hist, tasks \ {t})
       ELSE AdvanceOrEnd(t)
    /\ Quiet
    /\ UNCHANGED <<created, usedInSession, timesAsked, handed, io, approved, qlock>>

\* ------------------------------------------------------------ specifications
RoundsInputs == {MinRounds - 1, MinRounds, MaxRoundsLimit + 1}

\* Spec: one session of channel 1 followed in full, with every interleaving
\* of its messages (two users, any created_at order), resolver, scheduler,
\* stop and award failure. The pool has one approved question (or none),
\* never asked before. /trivia is issued until the session is created:
\* a later, rejected /trivia only clears _used_in_session, which makes no
\* difference to what a pool of one question hands out.
Init == InitWith({{}, {1}}, {[i \in Items |-> 0]}, "untracked")

Next ==
    \/ \E rounds \in RoundsInputs :
            created < SoloSessions /\ trivia(1, rounds, SoloSessions)
    \/ \E c \in {1, None} : trivia_stop(c)
    \/ \E u \in Users, ts \in 1..MaxTs, text \in {None, 1} : on_message(1, u, ts, text)
    \/ \E t \in tasks : stop_end_game(t)
    \/ \E t \in tasks : resolver_wake(t)
    \/ \E t \in tasks : award_points_fails(t)
    \/ \E t \in tasks : resolver_awarded(t)
    \/ \E t \in tasks : resolver_advance(t)
    \/ \E t \in tasks : ask_select(t)
    \/ \E t \in tasks : ask_open(t)
    \/ \E t \in tasks : sched_hint(t)
    \/ \E t \in tasks : sched_hint3_sent(t)
    \/ \E t \in tasks : sched_final(t)
    \/ \E t \in tasks : sched_grace(t)
    \/ \E t \in tasks : sched_timeout(t)

Spec == Init /\ [][Next]_vars

\* SpecCmd: the slash commands with their responses recorded, on channel 1:
\* starts with valid and invalid round counts at any moment, stops,
\* restarts after a stop or the end of a game, once the coroutines of the
\* earlier session have finished. One user answers, once a round.
InitCmd == InitWith({{1}}, {[i \in Items |-> 0]}, "none")

NextCmd ==
    \/ \E c \in {1, None}, rounds \in RoundsInputs :
            /\ c = None \/ BadRounds(rounds) \/ Running(1) \/ tasks = {}
            /\ trivia(c, rounds, MaxSessions)
    \/ \E c \in {1, None} : trivia_stop(c)
    \/ GAMES[1] # None /\ hist[GAMES[1]].subs = 0 /\ on_message(1, 1, 1, 1)
    \/ \E t \in tasks : stop_end_game(t)
    \/ \E t \in tasks : resolver_wake(t)
    \/ \E t \in tasks : resolver_awarded(t)
    \/ \E t \in tasks : resolver_advance(t)
    \/ \E t \in tasks : ask_select(t)
    \/ \E t \in tasks : ask_open(t)
    \/ \E t \in tasks : sched_hint(t)
    \/ \E t \in tasks : sched_hint3_sent(t)
    \/ \E t \in tasks : sched_final(t)
    \/ \E t \in tasks : sched_grace(t)
    \/ \E t \in tasks : sched_timeout(t)

SpecCmd == InitCmd /\ [][NextCmd]_vars

\* SpecPool: one session at a time on a pool of NItems approved questions,
\* of which any number was asked once before; nobody answers, every round
\* times out. /trivia is issued only while no session runs, so the used
\* set is cleared when a session starts and not again while it runs.
InitPool ==
    InitWith({Items}, {[i \in Items |-> IF i <= k THEN 1 ELSE 0] : k \in 0..NItems},
             "untracked")

NextPool ==
    \/ \E rounds \in RoundsInputs :
            ~Running(1) /\ trivia(1, rounds, SoloSessions)
    \/ \E t \in tasks : ask_select(t)
    \/ \E t \in tasks : ask_open(t)
    \/ \E t \in tasks : sched_hint(t)
    \/ \E t \in tasks : sched_hint3_sent(t)
    \/ \E t \in tasks : sched_final(t)
    \/ \E t \in tasks : sched_timeout(t)

SpecPool == InitPool /\ [][NextPool]_vars

\* SpecSel: sessions of two channels drawing from one pool of two approved
\* questions; nobody answers, every round times out.
InitSel == InitWith({{1, 2}}, {[i \in Items |-> 0]}, "untracked")

NextSel ==
    \/ \E c \in Channels : trivia(c, MinRounds, MaxSessions)
    \/ \E t \in tasks : ask_select(t)
    \/ \E t \in tasks : ask_open(t)
    \/ \E t \in tasks : sched_hint(t)
    \/ \E t \in tasks : sched_hint3_sent(t)
    \/ \E t \in tasks : sched_final(t)
    \/ \E t \in tasks : sched_timeout(t)

SpecSel == InitSel /\ [][NextSel]_vars

\* SpecQuip: one session of MinRounds or QuipMinRounds rounds played to its
\* end by one participant: a round is answered before its first hint is due
\* and resolved before the scheduler wakes (the resolver needs
\* WINNER_RESOLUTION_DELAY + ROUND_TRANSITION_DELAY, much less than
\* HINT_DELAY_SECONDS), or it is not answered and times out.
NextQuip ==
    \/ \E rounds \in {MinRounds, QuipMinRounds} :
            created < SoloSessions /\ trivia(1, rounds, SoloSessions)
    \/ /\ GAMES[1] # None
       /\ hist[GAMES[1]].subs = 0
       /\ \E d \in TasksOf("sched", GAMES[1]) : d.pc = "hint" /\ d.lvl = 1
       /\ on_message(1, 1, 1, 1)
    \/ \E t \in tasks : resolver_wake(t)
    \/ \E t \in tasks : resolver_awarded(t)
    \/ \E t \in tasks : resolver_advance(t)
    \/ \E t \in tasks : ask_select(t)
    \/ \E t \in tasks : ask_open(t)
    \/ \E t \in tasks : TasksOf("res", t.g) = {} /\ sched_hint(t)
    \/ \E t \in tasks : sched_hint3_sent(t)
    \/ \E t \in tasks : sched_final(t)
    \/ \E t \in tasks : sched_timeout(t)

SpecQuip == InitCmd /\ [][NextQuip]_vars

\* SpecHint: the commentary line of hint 3, for every expected answer of 2
\* to MaxAnswerLen characters (single-character answers get no hint,
\* hints.py:84, 98-101) and every outcome of the commentary call: it raises,
\* or returns a text of up to MaxReplyLen characters, or a text one
\* character over the cap that starts or ends with a two-letter word.
AnswerChars == {"a", "s", "A", "x"}

Filler(n) == [i \in 1..n |-> "x"]

LongReplies ==
    UNION {{r \o Filler(CommentaryCap + 1 - Len(r)), Filler(CommentaryCap + 1 - Len(r)) \o r} :
             r \in Strings({"a", "s"}, 2, 2)}

Outcomes ==
    {[raised |-> TRUE, content |-> << >>]} \cup
    {[raised |-> FALSE, content |-> c] :
        c \in Strings(AnswerChars \cup Whitespace, 0, MaxReplyLen) \cup LongReplies}

InitHint ==
    /\ Idle({{}}, {[i \in Items |-> 0]}, "untracked")
    /\ io \in {[fn |-> "hint_3", answer |-> a, outcome |-> o, done |-> FALSE, line |-> << >>] :
                  a \in Strings(AnswerChars, 2, MaxAnswerLen), o \in Outcomes}

NextHint == hint_3_send

SpecHint == InitHint /\ [][NextHint]_vars

\* SpecBuild: the three hints of an answer, for every one-word answer of
\* up to MaxHintLen letters and every answer of up to MaxWordLen characters
\* with blanks anywhere (several words, repeated, leading and trailing
\* blanks).
HintAnswers ==
    Strings({"a", "b"}, 0, MaxHintLen) \cup Strings({"a", "b", " "}, 0, MaxWordLen)

InitBuild ==
    /\ Idle({{}}, {[i \in Items |-> 0]}, "untracked")
    /\ io \in {[fn |-> "build_hint", answer |-> a, hints |-> << >>] : a \in HintAnswers}

NextBuild == build_hint_call

SpecBuild == InitBuild /\ [][NextBuild]_vars

\* SpecAnswer: is_correct_answer for every message of up to MaxSubLen
\* characters (digits, a letter, a blank, a digit int() rejects) against
\* every question with up to two expected answers of up to MaxDigits
\* characters (digits, a letter) that is classified in numeric or
\* single-character mode.
ExpectedTexts == Strings(DecimalDigits \cup {"a"}, 1, MaxDigits)

ExpectedLists ==
    {l \in {<< >>} \cup {<<a>> : a \in ExpectedTexts}
                   \cup {<<a, b>> : a \in ExpectedTexts, b \in ExpectedTexts} :
        all_numeric(l) \/ all_single_char(l)}

\* a call of is_correct_answer that is about to be made
Call(u, l) ==
    [fn |-> "is_correct_answer", user |-> u, expected |-> l,
     done |-> FALSE, result |-> FALSE, raised |-> "none"]

InitAnswer ==
    /\ Idle({{}}, {[i \in Items |-> 0]}, "untracked")
    /\ io \in {Call(u, l) :
                  u \in Strings(DecimalDigits \cup {"a", Superscript} \cup Whitespace,
                                0, MaxSubLen),
                  l \in ExpectedLists}

NextAnswer == classify

SpecAnswer == InitAnswer /\ [][NextAnswer]_vars

\* SpecText: is_correct_answer in all three modes. The submissions and the
\* expected answers are the texts of up to MaxWordLen characters over two
\* letters and the blank that normalize() leaves as they are ("to" is a
\* stop-word, "t" and "o" are not), every text of up to MaxSubLen characters
\* with a capital, a punctuation mark or blanks anywhere, the texts of the
\* documented examples, a digit and a digit int() rejects. A question has
\* no expected answer, one, or two short ones.
TextChars == {"t", "o", " "}

Words == {w \in Strings(TextChars, 0, MaxWordLen) : normalize(w) = w}

MarkedTexts == Strings({"T", ".", " "}, 0, MaxSubLen)

NewYork == <<"n", "e", "w", " ", "y", "o", "r", "k">>
NewYorkCity == NewYork \o <<" ", "c", "i", "t", "y">>
Pari == <<"p", "a", "r", "i">>
Paris == Pari \o <<"s">>

Submissions ==
    Words \cup MarkedTexts \cup {NewYork, Pari, Paris, <<"a">>, <<"A">>, <<"1">>, <<Superscript>>}

ShortTexts == Strings({"t", "o", "T"}, 1, 1) \cup {<<"t", "o">>}

QuestionAnswers ==
    {<< >>, <<<<"A">>, <<"B">>>>, <<<<"1">>>>, <<<<Superscript>>>>}
      \cup {<<a>> : a \in Words \cup MarkedTexts \cup {NewYorkCity, Paris}}
      \cup {<<a, b>> : a \in ShortTexts, b \in ShortTexts}

InitText ==
    /\ Idle({{}}, {[i \in Items |-> 0]}, "untracked")
    /\ io \in {Call(u, l) : u \in Submissions, l \in QuestionAnswers}

NextText == classify

SpecText == InitText /\ [][NextText]_vars

\* SpecScramble: GameState.scramble for every word of up to MaxAnswerLen
\* letters over two letters, with every outcome of every shuffle.
ScrambleWords == Strings({"a", "b"}, 0, MaxAnswerLen)

InitScramble ==
    /\ Idle({{}}, {[i \in Items |-> 0]}, "untracked")
    /\ io \in {[fn |-> "scramble", word |-> w, letters |-> w, scrambled |-> w,
                 attempts |-> 0, done |-> FALSE] : w \in ScrambleWords}

NextScramble ==
    \/ scramble_shuffle
    \/ scramble_return

SpecScramble == InitScramble /\ [][NextScramble]_vars

\* SpecWords: one scramble session followed in full, as Spec follows a
\* trivia session (without stop and award failure): the rounds are timed by
\* handle_scramble_timeout. get_random_scramble_word and
\* ask_next_scramble_round are ask_next_round's selection and opening steps
\* on the scramble_words table (scramble_manager.py:86-155,
\* scramble_lifecycle.py:10-45); the session is created and its messages
\* are classified and collected as bot.py does for trivia. A hint
\* checkpoint is followed when no resolver of the session is in flight (the
\* checkpoints are 20 s apart, a resolver lasts 1.8 s); the final check is
\* followed at any moment.
NextWords ==
    \/ \E rounds \in RoundsInputs :
            created < SoloSessions /\ trivia(1, rounds, SoloSessions)
    \/ \E u \in Users, ts \in 1..MaxTs, text \in {None, 1} : on_message(1, u, ts, text)
    \/ \E t \in tasks : resolver_wake(t)
    \/ \E t \in tasks : resolver_awarded(t)
    \/ \E t \in tasks : resolver_advance(t)
    \/ \E t \in tasks : ask_select(t)
    \/ \E t \in tasks : ask_open(t)
    \/ \E t \in tasks : TasksOf("res", t.g) = {} /\ scramble_hint(t)
    \/ \E t \in tasks : scramble_final(t)
    \/ \E t \in tasks : scramble_timeout(t)

SpecWords == Init /\ [][NextWords]_vars

\* SpecWordsStop: SpecWords with /trivia_stop at any moment, so that a
\* resolver can find its round closed by the timeout, and its session
\* stopped, when it wakes.
NextWordsStop ==
    \/ \E rounds \in RoundsInputs :
            created < SoloSessions /\ trivia(1, rounds, SoloSessions)
    \/ \E c \in {1, None} : trivia_stop(c)
    \/ \E u \in Users, ts \in 1..MaxTs, text \in {None, 1} : on_message(1, u, ts, text)
    \/ \E t \in tasks : stop_end_game(t)
    \/ \E t \in tasks : resolver_wake(t)
    \/ \E t \in tasks : resolver_awarded(t)
    \/ \E t \in tasks : resolver_advance(t)
    \/ \E t \in tasks : ask_select(t)
    \/ \E t \in tasks : ask_open(t)
    \/ \E t \in tasks : TasksOf("res", t.g) = {} /\ scramble_hint(t)
    \/ \E t \in tasks : scramble_final(t)
    \/ \E t \in tasks : scramble_timeout(t)

SpecWordsStop == Init /\ [][NextWordsStop]_vars

\* SpecStart: /trivia and /trivia_stop on channel 1 at any moment, also
\* while the coroutines of an earlier session of the channel are still
\* suspended, with the responses recorded. One participant answers the
\* first round of a session, once; the later rounds time out.
NextStart ==
    \/ \E rounds \in RoundsInputs : trivia(1, rounds, MaxSessions)
    \/ trivia_stop(1)
    \/ /\ GAMES[1] # None
       /\ hist[GAMES[1]].subs = 0
       /\ games[GAMES[1]].round = 1
       /\ on_message(1, 1, 1, 1)
    \/ \E t \in tasks : stop_end_game(t)
    \/ \E t \in tasks : resolver_wake(t)
    \/ \E t \in tasks : resolver_awarded(t)
    \/ \E t \in tasks : resolver_advance(t)
    \/ \E t \in tasks : ask_select(t)
    \/ \E t \in tasks : ask_open(t)
    \/ \E t \in tasks : sched_hint(t)
    \/ \E t \in tasks : sched_hint3_sent(t)
    \/ \E t \in tasks : sched_final(t)
    \/ \E t \in tasks : sched_grace(t)
    \/ \E t \in tasks : sched_timeout(t)

SpecStart == InitCmd /\ [][NextStart]_vars

\* SpecLive: one session of channel 1 on a pool of one approved question,
\* with collaborators that always return (award_points does not raise).
\* Users send messages (all with one created_at: who wins does not matter
\* here) and /trivia_stop when they like. Every suspended
\* coroutine is resumed in the end: its sleep runs out, its awaited call
\* returns, the lock it waits for is released (weak fairness of each step
\* of a task).
InitLive == InitWith({{1}}, {[i \in Items |-> 0]}, "untracked")

NextLive ==
    \/ \E rounds \in RoundsInputs :
            created < SoloSessions /\ trivia(1, rounds, SoloSessions)
    \/ \E c \in {1, None} : trivia_stop(c)
    \/ \E u \in Users, text \in {None, 1} : on_message(1, u, 1, text)
    \/ \E t \in tasks : stop_end_game(t)
    \/ \E t \in tasks : resolver_wake(t)
    \/ \E t \in tasks : resolver_awarded(t)
    \/ \E t \in tasks : resolver_advance(t)
    \/ \E t \in tasks : ask_select(t)
    \/ \E t \in tasks : ask_open(t)
    \/ \E t \in tasks : sched_hint(t)
    \/ \E t \in tasks : sched_hint3_sent(t)
    \/ \E t \in tasks : sched_final(t)
    \/ \E t \in tasks : sched_grace(t)
    \/ \E t \in tasks : sched_timeout(t)

Fairness ==
    /\ WF_vars(\E t \in tasks : stop_end_game(t))
    /\ WF_vars(\E t \in tasks : resolver_wake(t))
    /\ WF_vars(\E t \in tasks : resolver_awarded(t))
    /\ WF_vars(\E t \in tasks : resolver_advance(t))
    /\ WF_vars(\E t \in tasks : ask_select(t))
    /\ WF_vars(\E t \in tasks : ask_open(t))
    /\ WF_vars(\E t \in tasks : sched_hint(t))
    /\ WF_vars(\E t \in tasks : sched_hint3_sent(t))
    /\ WF_vars(\E t \in tasks : sched_final(t))
    /\ WF_vars(\E t \in tasks : sched_grace(t))
    /\ WF_vars(\E t \in tasks : sched_timeout(t))

SpecLive == InitLive /\ [][NextLive]_vars /\ Fairness

\* SpecFault: SpecPool with selection queries that may raise.
NextFault ==
    \/ \E rounds \in RoundsInputs :
            ~Running(1) /\ trivia(1, rounds, SoloSessions)
    \/ \E t \in tasks : ask_select(t)
    \/ \E t \in tasks : ask_select_failing(t)
    \/ \E t \in tasks : ask_open(t)
    \/ \E t \in tasks : sched_hint(t)
    \/ \E t \in tasks : sched_hint3_sent(t)
    \/ \E t \in tasks : sched_final(t)
    \/ \E t \in tasks : sched_timeout(t)

SpecFault == InitPool /\ [][NextFault]_vars

\* ------------------------------------------------------------ properties
RECURSIVE SumTo(_, _)
SumTo(f, n) == IF n = 0 THEN 0 ELSE f[n] + SumTo(f, n - 1)

\* the points a session has given out
TotalScore(s) == SumTo(s.scores, NUsers)

\* the GameState g is as it was, or nothing refers to it any more
Kept(g, was) == games'[g] = was \/ games'[g] = NoGameState

\* C1: in every round of a session, whatever the interleaving of messages,
\* resolver and scheduler, the resolver commits (adds one point to one
\* participant) at most once and award_points is called at most once; so a
\* session never holds more points than it has opened rounds.
OneAwardPerRound ==
    \A g \in ObjIds :
        /\ hist[g].commits <= 1
        /\ hist[g].awards <= 1
        /\ TotalScore(games[g]) <= games[g].round

\* a round with two correct submissions and one commit
OneAwardWitness ==
    \E g \in ObjIds : hist[g].commits = 1 /\ hist[g].subs >= 2

\* C2 (as the code has it): when the resolver commits, the winner is the
\* candidate with the least created_at among the candidates collected by
\* then, the first of them in arrival order on a tie, and every collected
\* candidate answered the current round; so of two correct answers with
\* T1 < T2 that are both collected before the grace window ends, T1 wins
\* whichever arrived first.
EarliestCollectedWins ==
    [][\A g \in ObjIds :
          hist'[g].commits = hist[g].commits + 1 =>
              LET cs == games[g].correct_candidates IN
              \E i \in 1..Len(cs) :
                  /\ games'[g].winner_id = cs[i].user
                  /\ hist'[g].winTs = cs[i].ts
                  /\ \A j \in 1..Len(cs) :
                        /\ cs[j].rnd = games[g].round
                        /\ cs[i].ts < cs[j].ts \/ (cs[i].ts = cs[j].ts /\ i <= j)]_vars

\* two users answered, the later arrival has the earlier created_at, and
\* the resolver committed that later arrival as the winner
EarliestWinsWitness ==
    \E g \in ObjIds :
        LET cs == games[g].correct_candidates IN
        /\ hist[g].winTs # None
        /\ Len(cs) >= 2
        /\ cs[1].user # cs[2].user
        /\ cs[2].ts < cs[1].ts
        /\ games[g].winner_id = cs[2].user
        /\ hist[g].winTs = cs[2].ts

\* C2 (as stated): the committed winner has the least created_at among ALL
\* submissions classified correct for the round, whenever they arrive: no
\* other participant has a correct answer to this round with an earlier
\* created_at.
WinnerIsEarliestOfAll ==
    \A g \in ObjIds :
        hist[g].winTs # None =>
            \A i \in 1..Len(games[g].correct_candidates) :
                LET m == games[g].correct_candidates[i] IN
                (m.rnd = games[g].round /\ m.user # games[g].winner_id)
                => m.ts >= hist[g].winTs

\* C3: round never exceeds max_rounds; no step makes the round counter of a
\* session decrease or grow by more than 1; and each advancement (the round
\* opened by ask_next_round) grows it by exactly 1.
RoundStepsByOne ==
    /\ [](\A g \in ObjIds : games[g].round <= games[g].max_rounds)
    /\ [][\A g \in ObjIds :
            \/ games'[g] = NoGameState
            \/ games'[g].round = games[g].round
            \/ games'[g].round = games[g].round + 1]_vars
    /\ [][\A t \in tasks :
            ask_open(t) =>
                \/ games'[t.g] = NoGameState
                \/ games'[t.g].round = games[t.g].round + 1]_vars

\* a running session in its last round
LastRoundWitness ==
    \E g \in ObjIds : games[g].in_progress /\ games[g].round = games[g].max_rounds

\* C4: in a round winner_id goes from unset to set at most once (so not by
\* both the resolver and the scheduler) and the advance-or-end step runs at
\* most once; a resolver or scheduler that wakes to find the round closed
\* changes no score, no winner, no round and starts nothing.
RaceLoserIsSilent ==
    /\ [](\A g \in ObjIds : hist[g].locks <= 1 /\ hist[g].advances <= 1)
    /\ [][\A t \in tasks :
            /\ (resolver_wake(t) /\ ResolverBails(games[t.g], t.rnd)) =>
                  /\ Kept(t.g, [games[t.g] EXCEPT !.resolving = FALSE])
                  /\ tasks' \subseteq tasks
                  /\ hist'[t.g].advances = hist[t.g].advances
            /\ (sched_grace(t) /\ SchedulerBails(games[t.g], t.rnd)) =>
                  /\ Kept(t.g, games[t.g])
                  /\ tasks' \subseteq tasks
                  /\ hist'[t.g].advances = hist[t.g].advances]_vars

\* the resolver has committed a winner while the scheduler of the round is
\* in its extra sleep: the scheduler is about to lose the race
RaceLoserWitness ==
    \E t \in tasks :
        /\ t.kind = "sched" /\ t.pc = "grace"
        /\ t.rnd = games[t.g].round
        /\ games[t.g].winner_id \in Users

\* C5 (as stated): a failed award_points does not block the round: a running
\* session whose round has a committed winner either still has its resolver
\* or has resolving cleared and the next round being asked.
AwardFailureDoesNotBlock ==
    \A g \in ObjIds :
        (/\ games[g].in_progress
         /\ games[g].winner_id \in Users
         /\ TasksOf("res", g) = {})
        => (~games[g].resolving /\ TasksOf("ask", g) # {})

\* C6: /trivia with rounds < 5, rounds > 100 or a running session in the
\* channel creates no session and leaves GAMES, every GameState and every
\* task as they were; any other /trivia puts a new GameState in GAMES with
\* round 0, no scores, in_progress true and the requested max_rounds.
StartRejectedOrCreated ==
    [][\A c \in Channels, rounds \in RoundsInputs :
          (\E cap \in {SoloSessions, MaxSessions} : trivia(c, rounds, cap)) =>
              IF \/ rounds < MinRounds
                 \/ rounds > MaxRoundsLimit
                 \/ (GAMES[c] # None /\ games[GAMES[c]].in_progress)
              THEN /\ GAMES' = GAMES
                   /\ games' = games
                   /\ created' = created
                   /\ tasks' = tasks
              ELSE /\ GAMES'[c] # None
                   /\ GAMES'[c] # GAMES[c]
                   /\ created' = created + 1
                   /\ games'[GAMES'[c]].round = 0
                   /\ ScoreKeys(games'[GAMES'[c]].scores) = {}
                   /\ games'[GAMES'[c]].in_progress
                   /\ games'[GAMES'[c]].max_rounds = rounds]_vars

\* /trivia was just answered "already running" on a session that has a
\* round open, points given and a candidate waiting
StartRejectedWitness ==
    /\ reply = "already_running"
    /\ \E g \in ObjIds :
          /\ games[g].in_progress
          /\ games[g].round >= 1
          /\ ScoreKeys(games[g].scores) # {}
          /\ games[g].correct_candidates # << >>

\* C7 (as stated): a /trivia that is rejected (bad round count, session
\* already running) changes no state at all, the selector's used set
\* included.
RejectedStartChangesNothing ==
    [][\A c \in Channels, rounds \in RoundsInputs :
          (/\ \E cap \in {SoloSessions, MaxSessions} : trivia(c, rounds, cap)
           /\ \/ rounds < MinRounds
              \/ rounds > MaxRoundsLimit
              \/ (GAMES[c] # None /\ games[GAMES[c]].in_progress))
          => UNCHANGED <<GAMES, games, created, tasks, usedInSession, timesAsked, handed, io,
                         approved, qlock, hist>>]_vars

\* C8: /trivia_stop in a channel with no session, or with a session that is
\* not in progress, answers "nothing running" and changes nothing; so does
\* every repetition of it.
StopWhenNotRunning ==
    [][\A c \in Channels :
          (trivia_stop(c) /\ ~(GAMES[c] # None /\ games[GAMES[c]].in_progress))
          => /\ reply' = "nothing_running"
             /\ UNCHANGED <<GAMES, games, created, tasks, usedInSession, timesAsked, handed, io,
                            approved, qlock, hist>>]_vars

\* /trivia_stop was just answered "nothing running" on a session that had
\* played rounds and is over
StopNotRunningWitness ==
    /\ reply = "nothing_running"
    /\ GAMES[1] # None
    /\ ~games[GAMES[1]].in_progress
    /\ games[GAMES[1]].round >= 1

Min(a, b) == IF a <= b THEN a ELSE b

\* C9: with a pool of n approved questions and the used set cleared when
\* the session started, the questions of the first n rounds are n different
\* ones, every question asked is an approved one, and a call of the
\* selector hands out a row whenever the pool is not empty.
PoolFirstThenRecycled ==
    /\ [](\A g \in ObjIds :
            /\ hist[g].got \subseteq approved
            /\ Cardinality(hist[g].got) = Min(games[g].round, Cardinality(approved)))
    /\ [][\A t \in tasks :
            (ask_select(t) /\ approved # {}) =>
                \E q \in approved : [t EXCEPT !.pc = "picked", !.q = q] \in tasks']_vars

\* a session that has asked every question of the pool and then one more
PoolRecycledWitness ==
    \E g \in ObjIds :
        /\ hist[g].got = Items
        /\ games[g].round > NItems

\* C10 (as stated): a session is never handed a question it has already
\* asked while an approved question it has not asked exists, whatever other
\* sessions start or draw.
NoRepeatBeforeExhausted ==
    \A t \in tasks :
        (t.kind = "ask" /\ t.pc = "picked" /\ t.q \in hist[t.g].got)
        => approved \subseteq hist[t.g].got

\* C11: selection and increment of one call are atomic: at most one call of
\* the selector is between its selection and its increment, that call is the
\* one holding the lock, and no call selects while another is there; so two
\* calls never both hold the same row selected as never asked.
SelectionIsAtomic ==
    /\ [](\A t1 \in tasks, t2 \in tasks :
            (t1.pc = "picked" /\ t2.pc = "picked") => t1 = t2)
    /\ [](qlock <=> \E t \in tasks : t.pc = "picked")
    /\ [][\A t \in tasks :
            ask_select(t) => ~\E d \in tasks : d.pc = "picked"]_vars

\* one session's call holds a row it selected as never asked, not yet
\* incremented, while the call of another session waits for the lock
SelectionContendedWitness ==
    \E t1 \in tasks, t2 \in tasks :
        /\ t1.kind = "ask" /\ t1.pc = "picked" /\ timesAsked[t1.q] = 0
        /\ t2.kind = "ask" /\ t2.pc = "call"
        /\ t1.g # t2.g

\* C12: every row's times_asked equals its initial value (0 here) plus the
\* number of times the selector has returned that row; the step that
\* returns a row adds exactly 1 to that row's counter and leaves every other
\* counter alone, and no other step changes a counter.
CounterCountsReturns ==
    /\ [](\A i \in Items : timesAsked[i] = handed[i])
    /\ [][\A t \in tasks :
            ask_open(t) => timesAsked' = [timesAsked EXCEPT ![t.q] = @ + 1]]_vars
    /\ [][timesAsked' # timesAsked => \E t \in tasks : ask_open(t)]_vars

\* a row that was returned to both sessions, twice to one of them
CounterWitness ==
    \E i \in Items :
        /\ handed[i] >= 3
        /\ \A c \in Channels : GAMES[c] # None /\ i \in hist[GAMES[c]].got

\* C13 (as stated): a call of the selector, with or without failing
\* queries, returns None only when no approved row exists.
NoneOnlyWhenPoolEmpty ==
    [][\A t \in tasks :
          (/\ ask_select(t) \/ ask_select_failing(t)
           /\ ~\E d \in tasks' : d.pc = "picked")
          => approved = {}]_vars

\* C14: a participant's score is the number of rounds a resolver commit
\* closed for them, so the scores list exactly the winners and sum to the
\* number of rounds closed by a commit; and the resolver's last step after
\* round max_rounds ends the session and asks for no further round.
ScoresAreRoundsWon ==
    /\ [](\A g \in ObjIds :
            /\ \A u \in Users : games[g].scores[u] = hist[g].wins[u]
            /\ TotalScore(games[g]) = SumTo(hist[g].wins, NUsers))
    /\ [][\A t \in tasks :
            (resolver_advance(t) /\ games[t.g].round = games[t.g].max_rounds)
            => (~games'[t.g].in_progress /\ TasksOf("ask", t.g)' = {})]_vars

\* a session that is over after max_rounds rounds, each won by one of two
\* participants, ended by the resolver of the last round
AllRoundsWonWitness ==
    \E g \in ObjIds :
        /\ ~games[g].in_progress
        /\ games[g].round = games[g].max_rounds
        /\ TotalScore(games[g]) = games[g].max_rounds
        /\ \A u \in Users : games[g].scores[u] >= 1
        /\ games[g].winner_id \in Users

\* C15: the advancement that follows the closing of a round (by a commit
\* or by the timeout) runs at most once per round; on a session in progress
\* it asks for exactly one new round if round < max_rounds, and otherwise
\* ends the session (in_progress false) and asks for none; no call of the
\* selector is pending for a session in progress that has played
\* max_rounds rounds.
ClosedRoundAdvancesOnce ==
    /\ [](\A g \in ObjIds :
            /\ hist[g].advances <= 1
            /\ (games[g].in_progress /\ TasksOf("ask", g) # {}) =>
                  games[g].round < games[g].max_rounds)
    /\ [][\A t \in tasks :
            (/\ resolver_advance(t) \/ sched_timeout(t)
             /\ games[t.g].in_progress)
            => IF games[t.g].round < games[t.g].max_rounds
               THEN /\ tasks' \ tasks = {Task("ask", t.g, 0, "call", None, 0)}
                    /\ games'[t.g] = games[t.g]
               ELSE /\ ~games'[t.g].in_progress
                    /\ games'[t.g].round = games[t.g].round
                    /\ tasks' \subseteq tasks]_vars

\* a session that ended when its last round timed out, after rounds closed
\* by commits
EndedByTimeoutWitness ==
    \E g \in ObjIds :
        /\ ~games[g].in_progress
        /\ games[g].round = games[g].max_rounds
        /\ games[g].winner_id = NoWinner
        /\ TotalScore(games[g]) >= 1

\* C16: when the selector returns None to ask_next_round, the session ends
\* there: in_progress becomes false, current_question is None, round keeps
\* its value, and no scheduler or any other task is started.
NoneEndsSessionEarly ==
    [][\A t \in tasks :
          (/\ ask_select(t) \/ ask_select_failing(t)
           /\ ~\E d \in tasks' : d.kind = "ask" /\ d.g = t.g)
          => /\ ~games'[t.g].in_progress
             /\ games'[t.g].current_question = None
             /\ games'[t.g].round = games[t.g].round
             /\ games'[t.g].scores = games[t.g].scores
             /\ tasks' \subseteq tasks \ {t}
             /\ TasksOf("sched", t.g)' = {}]_vars

\* a session that ended between two rounds, before its last round, with
\* nothing left running
EndedEarlyWitness ==
    \E g \in ObjIds :
        /\ ~games[g].in_progress
        /\ games[g].round >= 1
        /\ games[g].round < games[g].max_rounds
        /\ games[g].current_question = None
        /\ tasks = {}

\* C17: when the scheduler's final wait (and its extra sleep, if a
\* resolution was in flight) is over and the session is in progress, the
\* round is still the scheduler's and winner_id is unset, that one step
\* sets winner_id to the sentinel, empties the candidates, changes nothing
\* else (no score) and goes on to report "timeout"; a scheduler that finds
\* a resolution in flight only starts its extra sleep; in every other case
\* the scheduler returns without changing any state or starting anything.
TimeoutLocksOrNothing ==
    [][\A t \in tasks :
          (sched_final(t) \/ sched_grace(t)) =>
              LET s == games[t.g]
                  open == s.in_progress /\ s.round = t.rnd /\ s.winner_id = None
              IN  IF t.pc = "final" /\ s.resolving
                  THEN /\ games' = games
                       /\ tasks' = (tasks \ {t}) \cup {[t EXCEPT !.pc = "grace"]}
                  ELSE IF open
                  THEN /\ games'[t.g] = [s EXCEPT !.winner_id = NoWinner,
                                                  !.correct_candidates = << >>]
                       /\ games'[t.g].scores = s.scores
                       /\ [t EXCEPT !.pc = "locked"] \in tasks'
                       /\ hist'[t.g].advances = hist[t.g].advances
                  ELSE /\ Kept(t.g, s)
                       /\ tasks' \subseteq tasks \ {t}
                       /\ hist'[t.g].advances = hist[t.g].advances]_vars

\* a round of a running session was just closed by the timeout, in a
\* session that has given out points before; "timeout" is being reported
TimeoutReportedWitness ==
    \E t \in tasks :
        /\ t.kind = "sched" /\ t.pc = "locked"
        /\ games[t.g].in_progress
        /\ games[t.g].round = t.rnd
        /\ games[t.g].winner_id = NoWinner
        /\ games[t.g].correct_candidates = << >>
        /\ TotalScore(games[t.g]) >= 1

\* C18 (as stated): whatever the commentary call does, the commentary line
\* sent with hint 3 does not contain the expected answer and is not longer
\* than the cap.
Hint3LineIsSafe ==
    (io.fn = "hint_3" /\ io.done)
    => (/\ io.line # << >> => ~Contains(io.line, io.answer)
        /\ Len(io.line) <= CommentaryCap)

\* C19 (as stated): a session requests the mid-game commentary at most
\* once, only if its max_rounds is at least 15, and only in the step that
\* resolves the round max_rounds \div 2 with a winner.
QuipOnlyAtMidpoint ==
    /\ [](\A g \in ObjIds :
            /\ hist[g].quips <= 1
            /\ hist[g].quips >= 1 => games[g].max_rounds >= QuipMinRounds)
    /\ [][\A g \in ObjIds :
            hist'[g].quips > hist[g].quips =>
                /\ games[g].round = games[g].max_rounds \div 2
                /\ games[g].winner_id \in Users]_vars

\* a text made of decimal digits only
PureInteger(t) == t # << >> /\ \A i \in 1..Len(t) : t[i] \in DecimalDigits

\* C20: when every expected answer is a pure non-negative integer text,
\* is_correct_answer returns true exactly when the trimmed submission is a
\* pure digit text whose integer value equals that of some expected answer.
NumericModeIsIntegerEquality ==
    (/\ io.fn = "is_correct_answer" /\ io.done
     /\ \A i \in 1..Len(io.expected) : PureInteger(io.expected[i]))
    => (io.result <=>
          /\ PureInteger(strip(io.user))
          /\ \E i \in 1..Len(io.expected) :
                DecimalValue(strip(io.user)) = DecimalValue(io.expected[i]))

\* a submission with blanks around it and a leading zero was accepted
\* against an expected answer it equals only as an integer
LeadingZeroWitness ==
    /\ io.fn = "is_correct_answer" /\ io.done /\ io.result
    /\ io.expected = << <<"1">> >>
    /\ io.user = <<" ", "0", "1">>

\* the letters that differ in case only
CasePairs == {<<"a", "A">>, <<"b", "B">>, <<"s", "S">>, <<"t", "T">>, <<"y", "Y">>}

EqualIgnoringCase(x, y) ==
    /\ Len(x) = Len(y)
    /\ \A i \in 1..Len(x) :
          x[i] = y[i] \/ <<x[i], y[i]>> \in CasePairs \/ <<y[i], x[i]>> \in CasePairs

\* the expected answers put the classifier in single-character mode:
\* numeric mode does not apply and each has length 1 after trimming
SingleCharMode(expected) ==
    /\ ~all_numeric(expected)
    /\ \A i \in 1..Len(expected) : Len(strip(expected[i])) = 1

\* C21: in single-character mode is_correct_answer returns true exactly when
\* the trimmed submission equals some trimmed expected answer ignoring case;
\* there is no fuzzy fallback, so every longer submission is rejected.
SingleCharModeIsExactIgnoringCase ==
    (io.fn = "is_correct_answer" /\ io.done /\ SingleCharMode(io.expected))
    => /\ io.raised = "none"
       /\ io.result <=>
             \E i \in 1..Len(io.expected) :
                 EqualIgnoringCase(strip(io.user), strip(io.expected[i]))
       /\ Len(strip(io.user)) > 1 => ~io.result

\* "a" was accepted against ["A", "B"]
LowerCaseLetterWitness ==
    /\ io.fn = "is_correct_answer" /\ io.done /\ io.result
    /\ io.user = <<"a">>
    /\ io.expected = << <<"A">>, <<"B">> >>

\* the tokens of a text's normalized form that are not stop-words
TokenSet(text) ==
    LET tokens == split(normalize(text)) IN {tokens[i] : i \in 1..Len(tokens)} \ STOPWORDS

\* the expected answer has more than one word
MultiWord(text) == Len(split(normalize(text))) > 1

\* C22 as claimed: with multi-word expected answers a submission is accepted
\* only if its token set (stop-words excluded) is that of an expected
\* answer, so "new york" is rejected for "new york city".
MultiWordNeedsSameTokens ==
    (/\ io.fn = "is_correct_answer" /\ io.done
     /\ \A i \in 1..Len(io.expected) : MultiWord(io.expected[i]))
    => /\ io.result =>
             \E i \in 1..Len(io.expected) : TokenSet(io.user) = TokenSet(io.expected[i])
       /\ (io.user = NewYork /\ io.expected = <<NewYorkCity>>) => ~io.result

\* C22 as amended: a submission of two or more words, not all of them
\* stop-words, whose normalized form contains or is contained in the
\* normalized form of a multi-word expected answer is accepted, so
\* "new york" is accepted for "new york city".
MultiWordSubstringAccepted ==
    (/\ io.fn = "is_correct_answer" /\ io.done
     /\ \E i \in 1..Len(io.expected) :
           /\ MultiWord(io.expected[i])
           /\ \/ Contains(normalize(io.expected[i]), normalize(io.user))
              \/ Contains(normalize(io.user), normalize(io.expected[i]))
     /\ Len(split(normalize(io.user))) >= 2
     /\ TokenSet(io.user) # {})
    => io.result

\* "new york" was classified against "new york city"
NewYorkWitness ==
    /\ io.fn = "is_correct_answer" /\ io.done /\ io.result
    /\ io.user = NewYork /\ io.expected = <<NewYorkCity>>

\* a question in text mode with one expected answer, of a single word, and
\* a submission that has a word other than a stop-word
SingleWordQuestion ==
    /\ io.fn = "is_correct_answer" /\ io.done
    /\ Len(io.expected) = 1
    /\ Len(split(normalize(io.expected[1]))) = 1
    /\ ~all_numeric(io.expected) /\ ~all_single_char(io.expected)
    /\ TokenSet(io.user) # {}

\* C23 as claimed: for a single-word expected answer the threshold is 0.9,
\* so "pari" is rejected for "paris" (ratio 8/9) and "paris" is accepted.
SingleWordThresholdIsNine ==
    /\ SingleWordQuestion =>
          (io.result => ratio_at_least(normalize(io.user), normalize(io.expected[1]), 9))
    /\ (io.fn = "is_correct_answer" /\ io.done /\ io.expected = <<Paris>>) =>
          /\ io.user = Pari => ~io.result
          /\ io.user = Paris => io.result

\* C23 as amended: for a single-word expected answer of at most 4 characters
\* a submission is accepted exactly if its normalized form has the same
\* first character and a ratio of at least 0.9; for a longer one exactly if
\* it is the same text, or the lengths differ by at most 2, the first or the
\* last characters agree and the ratio is at least 0.8. So "pari" (ratio
\* 8/9) and "paris" are both accepted for "paris".
SingleWordThresholds ==
    /\ SingleWordQuestion =>
          LET ua == normalize(io.user)
              ca == normalize(io.expected[1])
          IN  io.result <=>
                IF Len(ca) <= 4
                THEN ua[1] = ca[1] /\ ratio_at_least(ua, ca, 9)
                ELSE \/ ua = ca
                     \/ /\ Abs(Len(ua) - Len(ca)) <= 2
                        /\ ua[1] = ca[1] \/ ua[Len(ua)] = ca[Len(ca)]
                        /\ ratio_at_least(ua, ca, 8)
    /\ (io.fn = "is_correct_answer" /\ io.done /\ io.expected = <<Paris>>) =>
          (io.user \in {Pari, Paris} => io.result)

\* "pari" was accepted for "paris"
PariWitness ==
    /\ io.fn = "is_correct_answer" /\ io.done /\ io.result
    /\ io.user = Pari /\ io.expected = <<Paris>>

\* the expected answers put the classifier in text mode
TextMode(expected) == ~all_numeric(expected) /\ ~all_single_char(expected)

\* every token of the text's normalized form is a stop-word
OnlyStopWords(text) ==
    LET tokens == split(normalize(text)) IN \A i \in 1..Len(tokens) : tokens[i] \in STOPWORDS

ClassifierIsTotal ==
    (io.fn = "is_correct_answer" /\ io.done)
    => /\ io.raised = "none"
       /\ io.result \in BOOLEAN
       /\ strip(io.user) = << >> => ~io.result
       /\ (TextMode(io.expected) /\ normalize(io.user) = << >>) => ~io.result
       /\ io.expected = << >> => ~io.result

\* a submission was classified against an expected answer of punctuation
\* only, whose normalized form has no first character
EmptyNormalFormWitness ==
    /\ io.fn = "is_correct_answer" /\ io.done /\ ~io.result
    /\ io.user = <<"t">>
    /\ io.expected = << <<".", ".">> >>

\* the two texts have the same letters, each as often
IsRearrangement(x, y) ==
    /\ Len(x) = Len(y)
    /\ \A ch \in {x[i] : i \in 1..Len(x)} \cup {y[i] : i \in 1..Len(y)} :
          Cardinality({i \in 1..Len(x) : x[i] = ch})
            = Cardinality({i \in 1..Len(y) : y[i] = ch})

\* C26: for every word of length at least 2 (with two different letters, so
\* that it has another arrangement) scramble returns a rearrangement of the
\* word's letters that differs from the word.
ScrambleDiffers ==
    (/\ io.fn = "scramble" /\ io.done
     /\ Len(io.word) >= 2
     /\ \E i \in 1..Len(io.word) : io.word[i] # io.word[1])
    => /\ IsRearrangement(io.scrambled, io.word)
       /\ io.scrambled # io.word

\* a cancellation condition of the scheduler t holds: its session was
\* stopped, its round has a winner, or the round counter has moved on
\* (the sentinel the scheduler itself has set is not a winner)
Cancelled(t) ==
    \/ ~games[t.g].in_progress
    \/ games[t.g].winner_id \in Users
    \/ games[t.g].round # t.rnd

\* C27: once a cancellation condition of a round's scheduler holds, the
\* scheduler takes no step that sends a hint or the timeout message, and
\* none of its steps changes a GameState.
SchedulerSilentOnceCancelled ==
    [][\A t \in tasks :
         (t.kind = "sched" /\ Cancelled(t))
         => /\ ~sched_hint(t)
            /\ ~sched_hint3_sent(t)
            /\ ~sched_timeout(t)
            /\ (sched_final(t) \/ sched_grace(t)) => games' = games]_vars

\* C28: the round is never locked with the no-winner sentinel while
\* resolving is true or a resolver armed for the round is still in its
\* grace window, so the submission that armed it is not overridden.
ArmedResolverNotOverridden ==
    [][\A g \in ObjIds :
         (games[g].winner_id = None /\ games'[g].winner_id = NoWinner)
         => /\ ~games[g].resolving
            /\ \A r \in TasksOf("res", g) : ~(r.pc = "grace" /\ r.rnd = games[g].round)]_vars

\* C29: in a round at most one resolver task is created, and it is created
\* by the step that appends the first correct candidate while winner_id is
\* unset, which always creates it; no later submission of the round, and
\* none that arrives after the round is closed, creates another.
ResolverArmedOncePerRound ==
    /\ [](\A g \in ObjIds : hist[g].armed <= 1)
    /\ [][\A g \in ObjIds :
            LET first == /\ games[g].winner_id = None
                         /\ games[g].in_progress
                         /\ games[g].correct_candidates = << >>
                         /\ Len(games'[g].correct_candidates) = 1
                armed == /\ hist'[g].armed = hist[g].armed + 1
                         /\ tasks' \ tasks = {Task("res", g, games[g].round, "grace", None, 0)}
                         /\ games'[g].resolving
            IN  /\ first <=> armed
                /\ ~armed => \A r \in TasksOf("res", g)' : r.pc = "grace" => r \in tasks
       ]_vars

\* a round had two correct submissions, the second after the winner was
\* committed and the candidates cleared, and one resolver
LateSubmissionWitness ==
    \E g \in ObjIds :
        /\ hist[g].subs = 2 /\ hist[g].armed = 1
        /\ games[g].winner_id \in Users
        /\ Len(games[g].correct_candidates) = 1

\* C30: whenever resolving is true, exactly one resolver task of that
\* session is in flight.
ResolvingMeansOneResolver ==
    \A g \in ObjIds : games[g].resolving => Cardinality(TasksOf("res", g)) = 1

\* C31: a resolver that wakes from its grace window and finds the session
\* stopped, the round closed by another path (winner_id set) or the round
\* number changed, ends there: it sets no winner_id, changes no score and no
\* round, starts no task and does not advance the session; only resolving
\* is cleared.
ResolverAbortsSilently ==
    [][\A t \in tasks :
          LET s == games[t.g] IN
          (/\ resolver_wake(t)
           /\ ~s.in_progress \/ s.winner_id # None \/ s.round # t.rnd)
          => /\ \/ games'[t.g] = NoGameState
                \/ /\ games'[t.g].winner_id = s.winner_id
                   /\ games'[t.g].scores = s.scores
                   /\ games'[t.g].round = s.round
                   /\ games'[t.g].in_progress = s.in_progress
                   /\ games'[t.g].current_question = s.current_question
                   /\ games'[t.g].correct_candidates = s.correct_candidates
                   /\ ~games'[t.g].resolving
             /\ tasks' \subseteq tasks \ {t}
             /\ hist' = hist \/ games'[t.g] = NoGameState]_vars

\* a resolver was armed in a round that the timeout then closed: the round
\* of a running session is locked with no winner, no commit was made and
\* the resolver is gone
ResolverLostToTimeoutWitness ==
    \E g \in ObjIds :
        /\ games[g].in_progress
        /\ games[g].winner_id = NoWinner
        /\ hist[g].armed = 1 /\ hist[g].commits = 0 /\ hist[g].locks = 1
        /\ TasksOf("res", g) = {}
        /\ ~games[g].resolving

\* C32 (as stated): in every state the current item is set only while the
\* round is open, that is, only while winner_id is unset; and a set
\* winner_id (a participant or the sentinel) means the round is closed.
ItemSetOnlyWhileOpen ==
    \A g \in ObjIds :
        /\ games[g].current_question # None => games[g].winner_id = None
        /\ games[g].winner_id # None =>
              ~(games[g].current_question # None /\ games[g].winner_id = None)

\* C32 (as amended): in a session in progress the current item is set from
\* the opening of the first round on, while a round is open and while it is
\* closed alike; winner_id is set exactly when the round has been closed
\* (once, by a commit or by the timeout), and then the item of the closed
\* round is still in place.
ItemKeptWhileClosed ==
    \A g \in ObjIds :
        games[g].in_progress =>
            /\ games[g].current_question # None <=> games[g].round >= 1
            /\ games[g].winner_id # None <=> hist[g].locks = 1
            /\ games[g].winner_id # None => games[g].current_question # None

\* a running session whose round is closed with a committed winner, the
\* resolver in its transition delay and the item of the round still set
ItemAfterCloseWitness ==
    \E t \in tasks :
        /\ t.kind = "res" /\ t.pc = "transition"
        /\ games[t.g].in_progress
        /\ games[t.g].winner_id \in Users
        /\ games[t.g].current_question # None

\* C33 (as stated): the candidate list is empty in every state in which
\* winner_id is set.
NoCandidatesOnceClosed ==
    \A g \in ObjIds :
        games[g].winner_id # None => games[g].correct_candidates = << >>

\* C33 (as amended): every candidate in the list was created by a correct
\* submission to the current round; while the round is open and the list is
\* not empty, the resolver of the round is in its grace window; the list is
\* emptied by the timeout in the step that closes the round, by the
\* resolver when it has reported the winner, and when the next round opens.
\* (With winner_id set the list can hold the candidates of the commit, and
\* submissions processed after the close.)
CandidatesClearedByClosingPath ==
    /\ [](\A g \in ObjIds :
            LET s == games[g] IN
            /\ \A i \in 1..Len(s.correct_candidates) : s.correct_candidates[i].rnd = s.round
            /\ (s.winner_id = None /\ s.correct_candidates # << >>) =>
                  \E r \in TasksOf("res", g) : r.pc = "grace" /\ r.rnd = s.round)
    /\ [][\A t \in tasks :
            /\ (/\ sched_final(t) \/ sched_grace(t)
                /\ games'[t.g].winner_id = NoWinner)
               => games'[t.g].correct_candidates = << >>
            /\ (resolver_awarded(t) /\ games[t.g].current_question # None)
               => games'[t.g].correct_candidates = << >>
            /\ ask_open(t) =>
                  games'[t.g] = NoGameState \/ games'[t.g].correct_candidates = << >>]_vars

\* a round closed by the timeout holds a candidate: a correct submission
\* was processed after the close
CandidateAfterTimeoutWitness ==
    \E g \in ObjIds :
        /\ games[g].in_progress
        /\ games[g].winner_id = NoWinner
        /\ Len(games[g].correct_candidates) = 1

\* C34 (as stated): once a session has been stopped, no step increments
\* its round counter, sets a current item, changes a score, calls
\* ask_next_round (the item selector, a new question) or runs the
\* advance-or-end step (a new question, a second scoreboard).
StoppedSessionIsLeftAlone ==
    [][\A g \in ObjIds :
          (GAMES[1] = g /\ ~games[g].in_progress)
          => /\ games'[g].round = games[g].round
             /\ games'[g].current_question = None
             /\ games'[g].scores = games[g].scores
             /\ \A a \in TasksOf("ask", g)' : a.pc = "call" => a \in tasks
             /\ TasksOf("sched", g)' \subseteq TasksOf("sched", g)
             /\ hist'[g].advances = hist[g].advances]_vars

\* C35: a correct submission processed while winner_id is set (the round is
\* closed, the next one not yet open) is appended to the candidates and
\* does nothing else: no score changes, no resolver is created, resolving
\* keeps its value; a round opens with an empty candidate list; and at a
\* resolver's commit every candidate was classified in the current round.
LateSubmissionIsIgnored ==
    [][\A g \in ObjIds :
          LET s == games[g] IN
          /\ (/\ s.winner_id # None
              /\ Len(games'[g].correct_candidates) = Len(s.correct_candidates) + 1)
             => /\ games'[g] = [s EXCEPT !.correct_candidates = games'[g].correct_candidates]
                /\ tasks' = tasks
                /\ hist'[g].armed = hist[g].armed
          /\ games'[g].round = s.round + 1 =>
                /\ games'[g].correct_candidates = << >>
                /\ games'[g].winner_id = None
          /\ hist'[g].commits = hist[g].commits + 1 =>
                \A i \in 1..Len(s.correct_candidates) :
                    s.correct_candidates[i].rnd = s.round]_vars

\* in a second or later round, with two rounds closed by commits: the
\* round's second correct submission was processed after the close and is
\* in the list while the resolver is in its transition delay
LateThenNextRoundWitness ==
    \E t \in tasks :
        /\ t.kind = "res" /\ t.pc = "transition"
        /\ games[t.g].round >= 2
        /\ TotalScore(games[t.g]) >= 2
        /\ games[t.g].correct_candidates # << >>
        /\ hist[t.g].subs = 2

\* C36: a channel never has two sessions in progress: a GameState that is
\* in progress is the one GAMES holds for its channel; and /trivia puts a
\* new GameState in GAMES only where there was no entry or the entry was a
\* session not in progress, so it never replaces a session in progress.
OneSessionPerChannel ==
    /\ [](\A g \in ObjIds : games[g].in_progress => GAMES[games[g].chan] = g)
    /\ [][\A c \in Channels :
            GAMES'[c] # GAMES[c] =>
                /\ GAMES[c] = None \/ ~games[GAMES[c]].in_progress
                /\ created' = created + 1
                /\ GAMES'[c] = created']_vars

\* a second /trivia was just rejected while the first question of the
\* session is not yet out, in a channel where a coroutine of an earlier,
\* stopped session is still suspended
SecondStartRejectedWitness ==
    /\ reply = "already_running"
    /\ created = 2
    /\ games[GAMES[1]].round = 0
    /\ \E t \in tasks : t.g = GAMES[1] /\ t.kind = "ask" /\ t.pc = "call"
    /\ \E t \in tasks : t.g # GAMES[1]

\* C37: the sentinel is never a key of scores; a score changes only by one
\* point at a time, for a participant who has a candidate of the current
\* round in the list, and for one participant in a step; every score is at
\* most the round number (and, being a key's value, at least 1).
ScoresBelongToWinners ==
    /\ [](\A g \in ObjIds :
            /\ NoWinner \notin ScoreKeys(games[g].scores)
            /\ ScoreKeys(games[g].scores) \subseteq Users
            /\ \A u \in ScoreKeys(games[g].scores) :
                  games[g].scores[u] >= 1 /\ games[g].scores[u] <= games[g].round)
    /\ [][\A g \in ObjIds :
            LET s == games[g]
                changed == {u \in ScoreIds : games'[g].scores[u] # s.scores[u]}
            IN  (games'[g] # NoGameState /\ changed # {}) =>
                    \E u \in Users :
                        /\ changed = {u}
                        /\ games'[g].scores[u] = s.scores[u] + 1
                        /\ games'[g].round = s.round
                        /\ \E i \in 1..Len(s.correct_candidates) :
                              /\ s.correct_candidates[i].user = u
                              /\ s.correct_candidates[i].rnd = s.round]_vars

\* a participant has won every round of a session so far, of at least two
\* rounds, while the other has no key in scores
ScoreEqualsRoundWitness ==
    \E g \in ObjIds, u \in Users :
        /\ games[g].round >= 2
        /\ games[g].scores[u] = games[g].round
        /\ ScoreKeys(games[g].scores) = {u}

\* the session g has a round open
RoundOpen(g) ==
    /\ games[g].in_progress
    /\ games[g].current_question # None
    /\ games[g].winner_id = None

\* a task that will advance the session g: the pending call of
\* ask_next_round, the resolver after its commit, the timed-out flow
Advancing(t, g) ==
    /\ t.g = g
    /\ \/ t.kind = "ask"
       \/ t.kind = "res" /\ t.pc \in {"award", "transition"}
       \/ t.kind = "sched" /\ t.pc = "locked"

\* C38: with every task resumed in the end, a pool that is not empty and
\* collaborators that return, every open round is closed in the end (by a
\* winner, by the timeout, or with its session: a session with a round open
\* comes to have none open, and the round number changes only when none is
\* open), every session in progress
\* comes to in_progress = false, and in every state a session in progress
\* whose round is closed (or not yet opened) has a task that will advance
\* it, and one whose round is open has the scheduler of that round.
EveryRoundAndSessionEnds ==
    /\ \A g \in ObjIds : RoundOpen(g) ~> ~RoundOpen(g)
    /\ [][\A g \in ObjIds : games'[g].round # games[g].round => ~RoundOpen(g)]_vars
    /\ \A g \in ObjIds : games[g].in_progress ~> ~games[g].in_progress
    /\ [](\A g \in ObjIds :
            games[g].in_progress =>
                IF games[g].round = 0 \/ games[g].winner_id # None
                THEN \E t \in tasks : Advancing(t, g)
                ELSE \E t \in TasksOf("sched", g) : t.rnd = games[g].round)

\* a session has played all its rounds, some closed by a commit and some
\* by the timeout, it ended with a winner in the last round, and none of
\* its tasks is left
PlayedToTheEndWitness ==
    \E g \in ObjIds :
        /\ ~games[g].in_progress
        /\ games[g].round = games[g].max_rounds
        /\ games[g].winner_id \in Users
        /\ TotalScore(games[g]) < games[g].max_rounds
        /\ tasks = {}

\* the characters of a hint word that are not masked
Revealed(h) == Cardinality({i \in 1..Len(h) : h[i] # Mask})

\* C39: each hint has one word per word of the answer, of the same length:
\* a prefix of the word followed by masks only; at least one character is
\* shown, fewer than all if the word has two or more, and a later level
\* shows no fewer characters of a word than the level before.
HintShowsProperPrefix ==
    io.fn = "build_hint" =>
        \A k \in 1..Len(io.hints) :
            LET words == split(io.answer)
                hws == split(io.hints[k])
            IN  /\ Len(hws) = Len(words)
                /\ \A i \in 1..Len(words) :
                      LET w == words[i]
                          h == hws[i]
                          n == Revealed(h)
                      IN  /\ Len(h) = Len(w)
                          /\ SubSeq(h, 1, n) = SubSeq(w, 1, n)
                          /\ \A j \in (n + 1)..Len(h) : h[j] = Mask
                          /\ n >= 1
                          /\ Len(w) >= 2 => n < Len(w)
                          /\ k > 1 => n >= Revealed(split(io.hints[k - 1])[i])

\* the three hints of a word of eight letters show 2, 4 and 6 of them
EightLetterWitness ==
    /\ io.fn = "build_hint"
    /\ io.answer = <<"a", "b", "b", "a", "b", "a", "a", "b">>
    /\ Len(io.hints) = 3
    /\ io.hints[1] = <<"a", "b", Mask, Mask, Mask, Mask, Mask, Mask>>
    /\ io.hints[2] = <<"a", "b", "b", "a", Mask, Mask, Mask, Mask>>
    /\ io.hints[3] = <<"a", "b", "b", "a", "b", "a", Mask, Mask>>

====
